---------------------------- MODULE Spec2Model ----------------------------
(***************************************************************************)
(* Pricing engine of the dropshiper backend (app/services/pricing_service) *)
(* together with the tables it reads and the endpoints that write them.    *)
(*                                                                         *)
(* Money is Python's decimal.Decimal.  A Decimal is modelled by the pair   *)
(* <<coef, exp>> that stands for coef * 10^exp, kept canonical (no         *)
(* trailing zero in coef, zero is <<0, 0>>), so that equality of pairs is  *)
(* Decimal's numeric equality (Decimal('125000') = Decimal('125000.00')).  *)
(* SQL NULL / Python None is the empty tuple; a nullable scalar that is    *)
(* not a Decimal (an Integer, a timestamp, a string, a Boolean) is the     *)
(* one-element tuple <<v>> when present.                                   *)
(*                                                                         *)
(* The binary floating point of _apply_price_ending and of the float       *)
(* arguments of calculate_price: a double is written as the Decimal of at  *)
(* most 15 digits it is nearest to or, when float() is taken of a longer   *)
(* Decimal, as its exact value.  The remainder, difference and sum that    *)
(* the normalizer takes of a double are exact below 2^53 (fmod is exact,   *)
(* e - r is exact or off by less than half an ulp of the multiple of e     *)
(* that the sum rounds to).                                                *)
(***************************************************************************)
EXTENDS Integers, Sequences, FiniteSets, TLC

VARIABLES partners, products, skus, rules, now, writes, call,
          accounts, settlements, quote, deleting,
          stock, inventory_updates, orders, batch

vars == <<partners, products, skus, rules, now, writes, call, accounts, settlements, quote,
          deleting, stock, inventory_updates, orders, batch>>

(* the quantity columns of the sku table, the inventory_updates table and  *)
(* the order requests in flight                                            *)
inventory == <<stock, inventory_updates, orders>>

(* what the pricing requests neither read nor write *)
others == <<accounts, settlements, quote, deleting, inventory, batch>>

db == <<partners, products, skus, rules>>

NULL == <<>>

Some(v) == <<v>>

Val(x) == x[1]

-----------------------------------------------------------------------------
(* decimal.Decimal *)

RECURSIVE Pow10(_)
Pow10(n) == IF n <= 0 THEN 1 ELSE 10 * Pow10(n - 1)

MinOf(a, b) == IF a <= b THEN a ELSE b

Abs(n) == IF n >= 0 THEN n ELSE 0 - n

Sgn(n) == IF n >= 0 THEN 1 ELSE -1

RECURSIVE NumDigits(_)
NumDigits(n) == IF n < 10 THEN 1 ELSE 1 + NumDigits(n \div 10)

(* A natural number of any size is the sequence of its base-10000 digits,   *)
(* most significant first and without leading zero; zero is the empty      *)
(* sequence.                                                                *)
RECURSIVE Limbs(_)
Limbs(n) == IF n = 0 THEN <<>> ELSE Append(Limbs(n \div 10000), n % 10000)

RECURSIVE MagValue(_)
MagValue(a) ==
    IF a = <<>> THEN 0 ELSE 10000 * MagValue(SubSeq(a, 1, Len(a) - 1)) + a[Len(a)]

RECURSIVE Strip(_)
Strip(a) == IF a /= <<>> /\ a[1] = 0 THEN Strip(Tail(a)) ELSE a

Front(a) == IF a = <<>> THEN a ELSE SubSeq(a, 1, Len(a) - 1)

LastOr0(a) == IF a = <<>> THEN 0 ELSE a[Len(a)]

Zeros(k) == [i \in 1 .. k |-> 0]

MagDigits(a) == IF a = <<>> THEN 0 ELSE 4 * (Len(a) - 1) + NumDigits(a[1])

RECURSIVE LexCmp(_, _)
LexCmp(a, b) ==
    IF a = <<>> THEN 0
    ELSE IF a[1] /= b[1] THEN (IF a[1] < b[1] THEN -1 ELSE 1)
    ELSE LexCmp(Tail(a), Tail(b))

MagCmp(a, b) ==
    IF Len(a) /= Len(b) THEN (IF Len(a) < Len(b) THEN -1 ELSE 1) ELSE LexCmp(a, b)

RECURSIVE AddC(_, _, _)
AddC(a, b, carry) ==
    IF carry = 0 /\ a = <<>> /\ b = <<>> THEN <<>>
    ELSE LET s == LastOr0(a) + LastOr0(b) + carry
         IN  Append(AddC(Front(a), Front(b), s \div 10000), s % 10000)

MagAdd(a, b) == AddC(a, b, 0)

RECURSIVE SubB(_, _, _)
SubB(a, b, borrow) ==
    IF borrow = 0 /\ b = <<>> THEN a
    ELSE LET d == LastOr0(a) - LastOr0(b) - borrow
         IN  Append(SubB(Front(a), Front(b), IF d < 0 THEN 1 ELSE 0),
                    IF d < 0 THEN d + 10000 ELSE d)

(* a - b for a >= b *)
MagSub(a, b) == Strip(SubB(a, b, 0))

(* a * m + carry for m <= 100000 *)
RECURSIVE MulC(_, _, _)
MulC(a, m, carry) ==
    IF carry = 0 /\ a = <<>> THEN <<>>
    ELSE LET p == LastOr0(a) * m + carry
         IN  Append(MulC(Front(a), m, p \div 10000), p % 10000)

MagMulSmall(a, m) == Strip(MulC(a, m, 0))

RECURSIVE MulLimbs(_, _)
MulLimbs(a, b) ==
    IF b = <<>> THEN <<>>
    ELSE LET high == MulLimbs(a, Front(b))
         IN  MagAdd(MagMulSmall(a, b[Len(b)]),
                    IF high = <<>> THEN high ELSE Append(high, 0))

MagMul(a, b) == IF Len(a) < Len(b) THEN MulLimbs(b, a) ELSE MulLimbs(a, b)

(* <<a div m, a mod m>> for m <= 100000, the quotient with leading zeros *)
RECURSIVE DivC(_, _, _)
DivC(a, m, r) ==
    IF a = <<>> THEN <<a, r>>
    ELSE LET cur == r * 10000 + a[1]
             rest == DivC(Tail(a), m, cur % m)
         IN  <<(<<cur \div m>>) \o rest[1], rest[2]>>

MagDivSmall(a, m) == <<Strip(DivC(a, m, 0)[1]), DivC(a, m, 0)[2]>>

MagMulPow10(a, s) ==
    IF a = <<>> \/ s <= 0 THEN a ELSE MagMulSmall(a \o Zeros(s \div 4), Pow10(s % 4))

(* <<a div 10^s, a mod 10^s>> *)
MagDivPow10(a, s) ==
    LET n == s \div 4
        high == IF Len(a) <= n THEN <<>> ELSE SubSeq(a, 1, Len(a) - n)
        low == IF Len(a) <= n THEN a ELSE Strip(SubSeq(a, Len(a) - n + 1, Len(a)))
        d == MagDivSmall(high, Pow10(s % 4))
    IN  IF s <= 0 THEN <<a, <<>>>>
        ELSE <<d[1], MagAdd(IF d[2] = 0 THEN <<>> ELSE Limbs(d[2]) \o Zeros(n), low)>>

RECURSIVE MagMulPow2(_, _)
MagMulPow2(a, k) ==
    IF k <= 0 \/ a = <<>> THEN a
    ELSE IF k >= 16 THEN MagMulPow2(MagMulSmall(a, 65536), k - 16)
    ELSE MagMulPow2(MagMulSmall(a, 2), k - 1)

RECURSIVE MagMulPow5(_, _)
MagMulPow5(a, k) ==
    IF k <= 0 \/ a = <<>> THEN a
    ELSE IF k >= 7 THEN MagMulPow5(MagMulSmall(a, 78125), k - 7)
    ELSE MagMulPow5(MagMulSmall(a, 5), k - 1)

(* the magnitude without its trailing decimal zeros, and their number *)
RECURSIVE StripZeros(_, _)
StripZeros(a, z) ==
    IF a = <<>> THEN <<a, z>>
    ELSE IF a[Len(a)] = 0 THEN StripZeros(Front(a), z + 4)
    ELSE IF a[Len(a)] % 10 /= 0 THEN <<a, z>>
    ELSE LET t == IF a[Len(a)] % 1000 = 0 THEN 3
                  ELSE IF a[Len(a)] % 100 = 0 THEN 2 ELSE 1
         IN  <<MagDivSmall(a, Pow10(t))[1], z + t>>

(* A Decimal of at most nine digits is <<coef, exp>>; a longer one is       *)
(* <<"wide", sign, magnitude, exp>>.  Both are canonical.                   *)
RECURSIVE DecNorm(_, _)
DecNorm(c, e) ==
    IF c = 0 THEN <<0, 0>>
    ELSE IF c % 10 = 0 THEN DecNorm(c \div 10, e + 1)
    ELSE <<c, e>>

Dec(n) == DecNorm(n, 0)

Cents(n) == DecNorm(n, -2)

DecZero == <<0, 0>>

(* Decimal('NaN'), which a NUMERIC column can hold *)
DecNaN == <<"NaN">>

IsWide(d) == Len(d) = 4

Sign(d) == IF IsWide(d) THEN d[2] ELSE Sgn(d[1])

Mag(d) == IF IsWide(d) THEN d[3] ELSE Limbs(Abs(d[1]))

Exp(d) == IF IsWide(d) THEN d[4] ELSE d[2]

DecOf(sign, mag, e) ==
    LET sz == StripZeros(mag, 0)
    IN  IF sz[1] = <<>> THEN DecZero
        ELSE IF MagDigits(sz[1]) <= 9 THEN <<sign * MagValue(sz[1]), e + sz[2]>>
        ELSE <<"wide", sign, sz[1], e + sz[2]>>

Align(d, e) == d[1] * Pow10(d[2] - e)

AlignMag(d, e) == MagMulPow10(Mag(d), Exp(d) - e)

(* Align(d, e) has at most eight digits *)
Fits(d, e) == ~IsWide(d) /\ NumDigits(Abs(d[1])) + (d[2] - e) <= 8

DecAdd(a, b) ==
    LET e == MinOf(Exp(a), Exp(b))
    IN  IF Fits(a, e) /\ Fits(b, e) THEN DecNorm(Align(a, e) + Align(b, e), e)
        ELSE LET x == AlignMag(a, e)
                 y == AlignMag(b, e)
                 c == MagCmp(x, y)
             IN  IF Sign(a) = Sign(b) THEN DecOf(Sign(a), MagAdd(x, y), e)
                 ELSE IF c = 0 THEN DecZero
                 ELSE IF c > 0 THEN DecOf(Sign(a), MagSub(x, y), e)
                 ELSE DecOf(Sign(b), MagSub(y, x), e)

DecMul(a, b) ==
    IF ~IsWide(a) /\ ~IsWide(b) /\ NumDigits(Abs(a[1])) + NumDigits(Abs(b[1])) <= 9
    THEN DecNorm(a[1] * b[1], a[2] + b[2])
    ELSE DecOf(Sign(a) * Sign(b), MagMul(Mag(a), Mag(b)), Exp(a) + Exp(b))

DecNeg(a) == IF IsWide(a) THEN <<"wide", 0 - a[2], a[3], a[4]>> ELSE <<0 - a[1], a[2]>>

DecSub(a, b) == DecAdd(a, DecNeg(b))

DecDivHundred(a) ==
    IF a = DecZero THEN a
    ELSE IF IsWide(a) THEN <<"wide", a[2], a[3], a[4] - 2>>
    ELSE <<a[1], a[2] - 2>>

DecLe(a, b) == Sign(DecSub(b, a)) = 1

DecLt(a, b) == DecLe(a, b) /\ a /= b

(* a mod n for an integer n with 0 < n <= 100000, in [0, n) *)
DecRem(a, n) ==
    LET s == 0 - MinOf(Exp(a), 0)
    IN  IF Fits(a, 0 - s) /\ NumDigits(n) + s <= 9
        THEN DecNorm(Align(a, 0 - s) % (n * Pow10(s)), 0 - s)
        ELSE LET parts == MagDivPow10(AlignMag(a, 0 - s), s)
                 r == MagDivSmall(parts[1], n)[2]
                 pos == DecOf(1, MagAdd(MagMulPow10(Limbs(r), s), parts[2]), 0 - s)
             IN  IF Sign(a) = 1 \/ pos = DecZero THEN pos
                 ELSE DecAdd(Dec(n), DecNeg(pos))

(* float % int: exact, and the remainder takes the sign of the (positive)  *)
(* divisor                                                                  *)
FloatMod(a, n) == DecRem(a, n)

(* int(float): truncation toward zero.  A Python int is carried as the      *)
(* Decimal of the same value.                                               *)
IntTrunc(a) ==
    IF Exp(a) >= 0 THEN a
    ELSE DecOf(Sign(a), MagDivPow10(Mag(a), 0 - Exp(a))[1], 0)

(* Decimal(str(i)) of a Python int i *)
DecimalOfInt(i) == i

(* a value stored in a DECIMAL(p, 2) column: rounded to two decimal places, *)
(* ties away from zero                                                      *)
Numeric2(a) ==
    IF Exp(a) >= -2 THEN a
    ELSE LET s == -2 - Exp(a)
             parts == MagDivPow10(Mag(a), s)
             up == MagCmp(MagMulSmall(parts[2], 2), MagMulPow10(<<1>>, s)) >= 0
         IN  DecOf(Sign(a), IF up THEN MagAdd(parts[1], <<1>>) ELSE parts[1], -2)

StoreNumeric2(x) == IF x = NULL \/ x = DecNaN THEN x ELSE Numeric2(x)

(* DECIMAL(12, 2) holds less than 10^10 in absolute value; a larger value   *)
(* makes the INSERT or UPDATE fail with "numeric field overflow"           *)
Numeric12Overflow(a) ==
    a /= DecNaN /\ DecLe(DecNorm(1, 10), IF Sign(a) < 0 THEN DecNeg(a) ELSE a)

(* a div 10^s rounded to the nearest integer, ties to even *)
MagRoundPow10(a, s) ==
    LET parts == MagDivPow10(a, s)
        half == MagCmp(MagMulSmall(parts[2], 2), MagMulPow10(<<1>>, s))
    IN  IF half > 0 \/ (half = 0 /\ LastOr0(parts[1]) % 2 = 1)
        THEN MagAdd(parts[1], <<1>>)
        ELSE parts[1]

(* the double nearest to d (ties to even), for 2^-70 < |d| < 2^53: the      *)
(* 53-bit integer N nearest to |d| * 2^k, given back as N * 5^k / 10^k       *)
NearestDouble(d) ==
    LET s == 0 - MinOf(Exp(d), 0)
        c == AlignMag(d, 0 - s)
        bound == MagMulPow10(MagMulPow2(<<1>>, 52), s)
        k == CHOOSE k \in 0 .. 122 :
                 /\ MagCmp(MagMulPow2(c, k), bound) >= 0
                 /\ MagCmp(MagMulPow2(c, k), MagMulSmall(bound, 2)) < 0
        N == MagRoundPow10(MagMulPow2(c, k), s)
    IN  DecOf(Sign(d), MagMulPow5(N, k), 0 - k)

(* float(d): a Decimal of at most 15 significant digits and the double      *)
(* nearest to it have the same integer part and are whole together, so the  *)
(* Decimal stands for its double; a longer one is rounded to 53 bits        *)
Float(d) == IF MagDigits(Mag(d)) <= 15 THEN d ELSE NearestDouble(d)

(* d rounded to n significant digits, ties to even *)
RoundHalfEven(d, n) ==
    LET drop == MagDigits(Mag(d)) - n
    IN  IF drop <= 0 THEN d
        ELSE DecOf(Sign(d), MagRoundPow10(Mag(d), drop), Exp(d) + drop)

(* Decimal(str(f)): repr prints the shortest digits that read back as f *)
DecimalOfStr(f) ==
    IF MagDigits(Mag(f)) <= 15 THEN f
    ELSE IF NearestDouble(RoundHalfEven(f, 15)) = f THEN RoundHalfEven(f, 15)
    ELSE IF NearestDouble(RoundHalfEven(f, 16)) = f THEN RoundHalfEven(f, 16)
    ELSE RoundHalfEven(f, 17)

-----------------------------------------------------------------------------
(* PricingService, pure parts *)

(* bool(x) of an Optional[Decimal]: None and Decimal('0') are falsy *)
Truthy(x) == x /= NULL /\ x /= DecZero

OrZero(x) == IF Truthy(x) THEN x ELSE DecZero

OrZeroInt(x) == IF x /= NULL /\ x /= Some(0) THEN Val(x) ELSE 0

(* variant: the fixed amount is left out of the sum *)
calculate_price_with_profit_no_fixed(base_price, profit_percentage, fixed_amount) ==
    IF ~Truthy(base_price) \/ DecLe(base_price, DecZero) THEN DecZero
    ELSE LET profit_amount == DecMul(base_price, DecDivHundred(profit_percentage))
         IN  DecAdd(base_price, profit_amount)

calculate_price_with_profit(base_price, profit_percentage, fixed_amount) ==
    IF ~Truthy(base_price) \/ DecLe(base_price, DecZero) THEN DecZero
    ELSE LET profit_amount == DecMul(base_price, DecDivHundred(profit_percentage))
         IN  DecAdd(DecAdd(base_price, profit_amount), fixed_amount)

(* variant: rounds down to the multiple below *)
apply_price_ending_round_down(price, ending_digit) ==
    IF ending_digit <= 0 THEN price
    ELSE LET price_float == Float(price)
             remainder == FloatMod(price_float, ending_digit)
             adjusted_price == DecSub(price_float, remainder)
         IN  IF remainder = DecZero THEN price
             ELSE DecimalOfInt(IntTrunc(adjusted_price))

apply_price_ending(price, ending_digit) ==
    IF ending_digit <= 0 THEN price
    ELSE LET price_float == Float(price)
             remainder == FloatMod(price_float, ending_digit)
             adjustment == DecSub(Dec(ending_digit), remainder)
             adjusted_price == DecAdd(price_float, adjustment)
         IN  IF remainder = DecZero THEN price
             ELSE DecimalOfInt(IntTrunc(adjusted_price))


(* the exception an operation raises instead of returning *)
Raise(what) == <<"raise", what, 0>>

Raised(x) == Len(x) = 3

(* variant: the percentage multiplier lacks the 1 *)
apply_pricing_rule_bare_percentage(current_price, rule, quantity) ==
    IF rule.rule_type = "percentage"
    THEN IF rule.rule_value = NULL THEN Raise("InvalidOperation")
         ELSE DecMul(current_price, DecDivHundred(rule.rule_value))
    ELSE IF rule.rule_type = "fixed_amount"
    THEN IF rule.rule_value = NULL THEN Raise("InvalidOperation")
         ELSE DecAdd(current_price, rule.rule_value)
    ELSE current_price

apply_pricing_rule(current_price, rule, quantity) ==
    IF rule.rule_type = "percentage"
    THEN IF rule.rule_value = NULL THEN Raise("InvalidOperation")
         ELSE LET multiplier == DecAdd(Dec(1), DecDivHundred(rule.rule_value))
              IN  DecMul(current_price, multiplier)
    ELSE IF rule.rule_type = "fixed_amount"
    THEN IF rule.rule_value = NULL THEN Raise("InvalidOperation")
         ELSE DecAdd(current_price, rule.rule_value)
    ELSE IF rule.rule_type = "custom" THEN current_price
    ELSE current_price

(* variant: every rule works on the price the loop started from *)
RECURSIVE SumOfMarkups(_, _, _)
SumOfMarkups(cost_price, pricing_rules, quantity) ==
    IF pricing_rules = <<>> THEN DecZero
    ELSE DecAdd(DecSub(apply_pricing_rule(cost_price, Head(pricing_rules), quantity),
                       cost_price),
                SumOfMarkups(cost_price, Tail(pricing_rules), quantity))

apply_rules_on_cost(final_price, pricing_rules, quantity) ==
    DecAdd(final_price, SumOfMarkups(final_price, pricing_rules, quantity))

(* the loop "for rule in pricing_rules: final_price = apply(final_price, rule)" *)
RECURSIVE apply_rules_in_order(_, _, _)
apply_rules_in_order(final_price, pricing_rules, quantity) ==
    IF pricing_rules = <<>> THEN final_price
    ELSE LET next_price == apply_pricing_rule(final_price, Head(pricing_rules), quantity)
         IN  IF Raised(next_price) THEN next_price
             ELSE apply_rules_in_order(next_price, Tail(pricing_rules), quantity)


-----------------------------------------------------------------------------
(* tables *)

MaxSkus == 2

PartnerIds == {"p1", "p2"}

ProductIds == {"A", "B"}

SkuIds == 1 .. MaxSkus

MaxRules == 2

RuleIds == 1 .. MaxRules

Row(table, id) == IF id \in DOMAIN table THEN table[id] ELSE NULL

(* sku.product and product.partner: the relationship loads the row the    *)
(* foreign key names, None when the key is NULL or names no row           *)
ProductOf(sku) == IF sku.product_id = NULL THEN NULL ELSE Row(products, Val(sku.product_id))

PartnerOf(product) == IF product.partner_id = NULL THEN NULL ELSE Row(partners, Val(product.partner_id))

-----------------------------------------------------------------------------
(* PricingService, formula path *)

(* variant: a missing partner gives zero *)
calculate_final_price_with_formula_zero(base_price, partner_id, quantity) ==
    IF base_price = DecNaN THEN Raise("InvalidOperation")
    ELSE IF ~Truthy(base_price) \/ DecLe(base_price, DecZero) THEN DecZero
    ELSE LET partner == Row(partners, partner_id)
         IN  IF partner = NULL THEN DecZero
             ELSE LET calculated_price ==
                          calculate_price_with_profit(base_price,
                              OrZero(partner.profit_percentage),
                              OrZero(partner.fixed_amount))
                  IN  apply_price_ending(calculated_price,
                                         OrZeroInt(partner.price_ending_digit))

(* variant: the partner's first active pricing rule is applied on top of    *)
(* the formula                                                             *)
calculate_final_price_with_formula_and_rule(base_price, partner_id, quantity) ==
    IF base_price = DecNaN THEN Raise("InvalidOperation")
    ELSE IF ~Truthy(base_price) \/ DecLe(base_price, DecZero) THEN DecZero
    ELSE LET partner == Row(partners, partner_id)
             mine == {i \in RuleIds : /\ rules[i] /= NULL
                                      /\ rules[i].partner_id = Some(partner_id)
                                      /\ rules[i].is_active = Some(TRUE)}
         IN  IF partner = NULL THEN base_price
             ELSE LET calculated_price ==
                          calculate_price_with_profit(base_price,
                              OrZero(partner.profit_percentage),
                              OrZero(partner.fixed_amount))
                      final_price ==
                          apply_price_ending(calculated_price,
                                             OrZeroInt(partner.price_ending_digit))
                  IN  IF mine = {} THEN final_price
                      ELSE apply_pricing_rule(final_price,
                               rules[CHOOSE i \in mine : \A j \in mine : i <= j],
                               quantity)

(* variant: the final_price stored for a SKU of the partner with this base *)
(* price is returned when there is one                                     *)
calculate_final_price_with_formula_stored(base_price, partner_id, quantity) ==
    LET stored == {i \in SkuIds : /\ skus[i] /= NULL
                                   /\ skus[i].base_price = base_price
                                   /\ skus[i].final_price /= NULL
                                   /\ ProductOf(skus[i]) /= NULL
                                   /\ ProductOf(skus[i]).partner_id = Some(partner_id)}
    IN  IF base_price = DecNaN THEN Raise("InvalidOperation")
        ELSE IF ~Truthy(base_price) \/ DecLe(base_price, DecZero) THEN DecZero
        ELSE IF stored /= {}
        THEN skus[CHOOSE i \in stored : \A j \in stored : i <= j].final_price
        ELSE LET partner == Row(partners, partner_id)
             IN  IF partner = NULL THEN base_price
                 ELSE LET calculated_price ==
                              calculate_price_with_profit(base_price,
                                  OrZero(partner.profit_percentage),
                                  OrZero(partner.fixed_amount))
                      IN  apply_price_ending(calculated_price,
                                             OrZeroInt(partner.price_ending_digit))

calculate_final_price_with_formula(base_price, partner_id, quantity) ==
    IF base_price = DecNaN THEN Raise("InvalidOperation")
    ELSE IF ~Truthy(base_price) \/ DecLe(base_price, DecZero) THEN DecZero
    ELSE LET partner == Row(partners, partner_id)
         IN  IF partner = NULL THEN base_price
             ELSE LET calculated_price ==
                          calculate_price_with_profit(base_price,
                              OrZero(partner.profit_percentage),
                              OrZero(partner.fixed_amount))
                  IN  apply_price_ending(calculated_price,
                                         OrZeroInt(partner.price_ending_digit))

(* the rows "select(SKU) [where product_id = :product_id]" returns *)
SelectedSkus(product_id) ==
    {i \in SkuIds : skus[i] /= NULL
                    /\ (product_id = NULL \/ skus[i].product_id = product_id)}

(* the guard "sku.base_price and sku.product and sku.product.partner_id" *)
Recomputable(sku) ==
    /\ Truthy(sku.base_price)
    /\ ProductOf(sku) /= NULL
    /\ ProductOf(sku).partner_id /= NULL

NewFinalPrice(sku) ==
    calculate_final_price_with_formula(sku.base_price, Val(ProductOf(sku).partner_id), 1)

(* new_final_price of each SKU that passes the guard *)
NewFinalPrices ==
    [i \in SkuIds |->
        IF skus[i] /= NULL /\ Recomputable(skus[i]) THEN NewFinalPrice(skus[i]) ELSE NULL]

(* variant: the product filter is left out of the selection *)
SkusToWrite_every_product(product_id, new_final_price) ==
    {i \in SelectedSkus(NULL) :
        /\ Recomputable(skus[i])
        /\ ~Raised(new_final_price[i])
        /\ new_final_price[i] /= skus[i].final_price}

(* the SKUs whose final_price attribute the loop assigns; an exception of   *)
(* the formula path is caught in the loop and the SKU is left as it is     *)
SkusToWrite(product_id, new_final_price) ==
    {i \in SelectedSkus(product_id) :
        /\ Recomputable(skus[i])
        /\ ~Raised(new_final_price[i])
        /\ new_final_price[i] /= skus[i].final_price}

(* the assigned values as the DECIMAL(12, 2) column takes them *)
StoredFinalPrices(new_final_price) ==
    [i \in SkuIds |->
        IF new_final_price[i] = NULL \/ Raised(new_final_price[i]) THEN NULL
        ELSE Numeric2(new_final_price[i])]

(* commit: the assigned values land in the column *)
SkusAfterUpdate(to_write, stored) ==
    [i \in SkuIds |->
        IF i \in to_write THEN [skus[i] EXCEPT !.final_price = stored[i]] ELSE skus[i]]

(* a value that overflows its column makes the flush of the commit raise:   *)
(* the transaction is rolled back and the exception leaves the method       *)
CommitFails(to_write, stored) ==
    \E i \in to_write : Numeric12Overflow(stored[i])

(* "if updated_count > 0: await self.db.commit()" and the return *)
commit_final_prices(product_id, to_write, stored) ==
    /\ IF CommitFails(to_write, stored)
       THEN /\ skus' = skus
            /\ call' = [op |-> "update_sku_final_prices",
                        product_id |-> product_id,
                        ret |-> Raise("numeric field overflow"),
                        rows_changed |-> {},
                        again |-> (call.op = "update_sku_final_prices"
                                   /\ call.product_id = product_id)]
       ELSE /\ skus' = SkusAfterUpdate(to_write, stored)
            /\ call' = [op |-> "update_sku_final_prices",
                        product_id |-> product_id,
                        ret |-> Cardinality(to_write),
                        rows_changed |-> {i \in to_write : stored[i] /= skus[i].final_price},
                        again |-> (call.op = "update_sku_final_prices"
                                   /\ call.product_id = product_id)]
    /\ UNCHANGED <<partners, products, rules, now, writes>>

(* the loop over the selected SKUs, then the commit *)
assign_final_prices(product_id, new_final_price) ==
    commit_final_prices(product_id, SkusToWrite(product_id, new_final_price),
                        StoredFinalPrices(new_final_price))

update_sku_final_prices(product_id) == assign_final_prices(product_id, NewFinalPrices)

-----------------------------------------------------------------------------
(* PricingService, rule path *)

(* SQL comparisons are three-valued: a comparison with NULL is unknown *)
SqlLe(a, b) == IF a = NULL \/ b = NULL THEN "unknown"
               ELSE IF Val(a) <= Val(b) THEN "true" ELSE "false"

SqlGe(a, b) == SqlLe(b, a)

(* column == value: rendered as IS NULL when the Python value is None *)
SqlEq(a, b) == IF b = NULL THEN (IF a = NULL THEN "true" ELSE "false")
               ELSE IF a = NULL THEN "unknown"
               ELSE IF a = b THEN "true" ELSE "false"

SqlIsNull(a) == IF a = NULL THEN "true" ELSE "false"

SqlOr(x, y) == IF x = "true" \/ y = "true" THEN "true"
               ELSE IF x = "false" /\ y = "false" THEN "false" ELSE "unknown"

SqlAnd(xs) == IF \E i \in DOMAIN xs : xs[i] = "false" THEN "false"
              ELSE IF \A i \in DOMAIN xs : xs[i] = "true" THEN "true" ELSE "unknown"

(* variant: the lower quantity bound is exclusive *)
RuleWhereStrictMin(r, partner_id, category, quantity) ==
    SqlAnd(<<SqlEq(r.partner_id, Some(partner_id)),
             SqlEq(r.is_active, Some(TRUE)),
             SqlLe(r.valid_from, Some(now)),
             SqlLe(r.min_quantity, Some(quantity - 1)),
             SqlOr(SqlIsNull(r.valid_until), SqlGe(r.valid_until, Some(now))),
             SqlOr(SqlIsNull(r.max_quantity), SqlGe(r.max_quantity, Some(quantity))),
             SqlOr(SqlIsNull(r.category_filter), SqlEq(r.category_filter, category))>>)

RuleWhere(r, partner_id, category, quantity) ==
    SqlAnd(<<SqlEq(r.partner_id, Some(partner_id)),
             SqlEq(r.is_active, Some(TRUE)),
             SqlLe(r.valid_from, Some(now)),
             SqlLe(r.min_quantity, Some(quantity)),
             SqlOr(SqlIsNull(r.valid_until), SqlGe(r.valid_until, Some(now))),
             SqlOr(SqlIsNull(r.max_quantity), SqlGe(r.max_quantity, Some(quantity))),
             SqlOr(SqlIsNull(r.category_filter), SqlEq(r.category_filter, category))>>)

(* the rows the WHERE clause keeps *)
MatchingRuleIds(partner_id, category, quantity) ==
    {i \in RuleIds : rules[i] /= NULL
                     /\ RuleWhere(rules[i], partner_id, category, quantity) = "true"}

(* ORDER BY priority DESC: NULL sorts first, rows of equal priority come   *)
(* in an order the database is free to choose on every execution           *)
PriorityDescOk(a, b) ==
    \/ a.priority = NULL
    \/ b.priority /= NULL /\ Val(a.priority) >= Val(b.priority)

OrderingsOf(S) ==
    {q \in [1 .. Cardinality(S) -> S] :
        /\ \A i, j \in DOMAIN q : i /= j => q[i] /= q[j]
        /\ \A i, j \in DOMAIN q : i < j => PriorityDescOk(rules[q[i]], rules[q[j]])}

(* every result list the query can produce, as lists of rule ids *)
get_applicable_pricing_rules(partner_id, category, quantity) ==
    OrderingsOf(MatchingRuleIds(partner_id, category, quantity))

RuleRows(ids) == [i \in DOMAIN ids |-> rules[ids[i]]]

(* calculate_price once the rule list is fetched *)
FoldFromCost(cost_price, ids, quantity) ==
    LET final_price == apply_rules_in_order(DecimalOfStr(cost_price), RuleRows(ids), quantity)
    IN  IF Raised(final_price) THEN final_price ELSE Float(final_price)

-----------------------------------------------------------------------------
(* endpoints that write the tables the formula path reads *)

ProfitInputs == {NULL, Dec(20), Dec(-5)}

FixedInputs == {NULL, Dec(5000)}

EndingInputs == {NULL, Some(0), Some(1000)}

BasePriceInputs == {NULL, Dec(100000), Cents(10001)}

(* CRUDBase.update: only the fields that are set and not None are assigned *)
Assign(old, new) == IF new /= NULL THEN new ELSE old

(* PartnerUpdate: Field(None, ge=0) on the three formula fields *)
PartnerUpdateValid(profit_percentage, fixed_amount, price_ending_digit) ==
    /\ profit_percentage /= NULL => DecLe(DecZero, profit_percentage)
    /\ fixed_amount /= NULL => DecLe(DecZero, fixed_amount)
    /\ price_ending_digit /= NULL => Val(price_ending_digit) >= 0

update_partner(partner_id, profit_percentage, fixed_amount, price_ending_digit) ==
    /\ IF ~PartnerUpdateValid(profit_percentage, fixed_amount, price_ending_digit)
       THEN /\ call' = [op |-> "update_partner", status |-> 422]
            /\ UNCHANGED partners
       ELSE IF Row(partners, partner_id) = NULL
       THEN /\ call' = [op |-> "update_partner", status |-> 404]
            /\ UNCHANGED partners
       ELSE /\ partners' = [partners EXCEPT ![partner_id] =
                   [@ EXCEPT !.profit_percentage = Assign(@, StoreNumeric2(profit_percentage)),
                             !.fixed_amount = Assign(@, StoreNumeric2(fixed_amount)),
                             !.price_ending_digit = Assign(@, price_ending_digit)]]
            /\ call' = [op |-> "update_partner", status |-> 200]
    /\ UNCHANGED <<products, skus, rules, now, writes>>

FreeSkuIds == {i \in SkuIds : skus[i] = NULL}

(* create_bulk_skus with a one-element skus_data list of raw dictionaries *)
create_bulk_skus(product_id, base_price, final_price) ==
    /\ IF Row(products, product_id) = NULL
       THEN /\ call' = [op |-> "create_bulk_skus", status |-> 404]
            /\ UNCHANGED skus
       ELSE /\ FreeSkuIds /= {}
            /\ LET id == CHOOSE i \in FreeSkuIds : \A j \in FreeSkuIds : i <= j
               IN  skus' = [skus EXCEPT ![id] =
                       [product_id |-> Some(product_id),
                        base_price |-> StoreNumeric2(base_price),
                        final_price |-> StoreNumeric2(final_price)]]
            /\ call' = [op |-> "create_bulk_skus", status |-> 200]
    /\ UNCHANGED <<partners, products, rules, now, writes>>

(* update_sku: SKUUpdate has base_price: Field(None, gt=0) *)
update_sku(sku_id, base_price) ==
    /\ IF base_price /= NULL /\ DecLe(base_price, DecZero)
       THEN /\ call' = [op |-> "update_sku", status |-> 422]
            /\ UNCHANGED skus
       ELSE IF Row(skus, sku_id) = NULL
       THEN /\ call' = [op |-> "update_sku", status |-> 404]
            /\ UNCHANGED skus
       ELSE /\ skus' = [skus EXCEPT ![sku_id].base_price = Assign(@, StoreNumeric2(base_price))]
            /\ call' = [op |-> "update_sku", status |-> 200]
    /\ UNCHANGED <<partners, products, rules, now, writes>>

-----------------------------------------------------------------------------
(* bulk recompute of the stored final prices *)

NoCall == [op |-> "none"]

(* no pricing call has been kept for comparison *)
NoQuote == [call |-> NoCall]

(* no update_sku_final_prices request is in flight *)
NoBatch == NULL

(* no SKU carries a quantity and no order request is in flight *)
NoStock == [i \in SkuIds |-> NULL]

RequestIds == {"a", "b"}

NoOrders == [r \in RequestIds |-> NULL]

(* Partner.credit_limit and Partner.current_debt, both nullable *)
NoAccounts == [p \in PartnerIds |-> [credit_limit |-> NULL, current_debt |-> NULL]]

LegacyPartner == [profit_percentage |-> NULL, fixed_amount |-> NULL,
                  price_ending_digit |-> NULL]

InitPartners == [p \in PartnerIds |-> IF p = "p1" THEN LegacyPartner ELSE NULL]

InitProducts ==
    [p \in ProductIds |->
        IF p = "A" THEN [partner_id |-> Some("p1"), category |-> Some("shoes")]
        ELSE [partner_id |-> NULL, category |-> NULL]]

Init ==
    /\ partners = InitPartners
    /\ products = InitProducts
    /\ skus = [i \in SkuIds |-> NULL]
    /\ rules = [i \in RuleIds |-> NULL]
    /\ now = 0
    /\ writes = 0
    /\ call = NoCall
    /\ accounts = NoAccounts
    /\ settlements = <<>>
    /\ quote = NoQuote
    /\ deleting = {}
    /\ stock = NoStock
    /\ inventory_updates = <<>>
    /\ orders = NoOrders
    /\ batch = NoBatch

UpdatePartner ==
    \E partner_id \in PartnerIds, profit_percentage \in ProfitInputs,
       price_ending_digit \in {NULL, Some(1000)} :
        update_partner(partner_id, profit_percentage, NULL, price_ending_digit)

CreateBulkSkus ==
    \E product_id \in ProductIds \cup {"Z"}, base_price \in BasePriceInputs :
        create_bulk_skus(product_id, base_price, NULL)

UpdateSku ==
    \E sku_id \in SkuIds, base_price \in BasePriceInputs \cup {Dec(0)} :
        update_sku(sku_id, base_price)

UpdateSkuFinalPrices ==
    \E product_id \in {NULL} \cup {Some(p) : p \in ProductIds} :
        update_sku_final_prices(product_id)

Next ==
    \/ UpdatePartner /\ UNCHANGED others
    \/ CreateBulkSkus /\ UNCHANGED others
    \/ UpdateSku /\ UNCHANGED others
    \/ UpdateSkuFinalPrices /\ UNCHANGED others

Spec == Init /\ [][Next]_vars

(* the recompute between SKU writes, the partners left as they are *)
ScopeNext ==
    \/ CreateBulkSkus /\ UNCHANGED others
    \/ UpdateSku /\ UNCHANGED others
    \/ UpdateSkuFinalPrices /\ UNCHANGED others

ScopeSpec == Init /\ [][ScopeNext]_vars

-----------------------------------------------------------------------------
(* formula path called directly (calculate_sku_price endpoint, SKU listings) *)

(* 9000009799.99, a base price that fits DECIMAL(12, 2) *)
LargeBasePrice == DecOf(1, <<9000, 97, 9999>>, -2)

FormulaBaseInputs ==
    {NULL, Dec(0), Dec(-50), Dec(100000), Cents(10001), Dec(125137), LargeBasePrice}

UpdatePartnerFormula ==
    \E partner_id \in PartnerIds,
       profit_percentage \in ProfitInputs \cup {Cents(1250), Cents(9999)},
       fixed_amount \in FixedInputs, price_ending_digit \in EndingInputs :
        update_partner(partner_id, profit_percentage, fixed_amount, price_ending_digit)

CalculateFinalPriceWithFormula ==
    \E base_price \in FormulaBaseInputs, partner_id \in PartnerIds, quantity \in {1, 5} :
        /\ call' = [op |-> "calculate_final_price_with_formula",
                    base_price |-> base_price,
                    partner_id |-> partner_id,
                    quantity |-> quantity,
                    ret |-> calculate_final_price_with_formula(base_price, partner_id, quantity)]
        /\ UNCHANGED <<partners, products, skus, rules, now, writes>>

FormulaNext ==
    \/ UpdatePartnerFormula /\ UNCHANGED others
    \/ CalculateFinalPriceWithFormula /\ UNCHANGED others

FormulaSpec == Init /\ [][FormulaNext]_vars

-----------------------------------------------------------------------------
(* pricing rule endpoints *)

MaxWrites == 3

MaxNow == 1

FreeRuleIds == {i \in RuleIds : rules[i] = NULL}

(* PricingRuleBase validators: rule_type, rule_value, min_quantity (ge=1), *)
(* max_quantity                                                            *)
PricingRuleCreateValid(rule_type, rule_value, min_quantity, max_quantity) ==
    /\ rule_type \in {"percentage", "fixed_amount", "custom"}
    /\ rule_type \in {"percentage", "fixed_amount"} => rule_value /= NULL
    /\ min_quantity >= 1
    /\ max_quantity /= NULL => Val(max_quantity) >= min_quantity

create_pricing_rule(rule) ==
    /\ IF ~PricingRuleCreateValid(rule.rule_type, rule.rule_value, rule.min_quantity,
                                  rule.max_quantity)
       THEN /\ call' = [op |-> "create_pricing_rule", status |-> 422]
            /\ UNCHANGED rules
       ELSE IF Row(partners, rule.partner_id) = NULL
       THEN /\ call' = [op |-> "create_pricing_rule", status |-> 404]
            /\ UNCHANGED rules
       ELSE /\ FreeRuleIds /= {}
            /\ LET id == CHOOSE i \in FreeRuleIds : \A j \in FreeRuleIds : i <= j
               IN  rules' = [rules EXCEPT ![id] =
                       [partner_id |-> Some(rule.partner_id),
                        rule_type |-> rule.rule_type,
                        rule_value |-> rule.rule_value,
                        min_quantity |-> Some(rule.min_quantity),
                        max_quantity |-> rule.max_quantity,
                        category_filter |-> rule.category_filter,
                        priority |-> Some(rule.priority),
                        is_active |-> Some(rule.is_active),
                        valid_from |-> IF rule.valid_from = NULL THEN Some(now)
                                       ELSE rule.valid_from,
                        valid_until |-> rule.valid_until]]
            /\ call' = [op |-> "create_pricing_rule", status |-> 200]
    /\ writes < MaxWrites
    /\ writes' = writes + 1
    /\ UNCHANGED <<partners, products, skus, now>>

(* PricingRuleUpdate validators: rule_type, min_quantity (ge=1) *)
PricingRuleUpdateValid(update_data) ==
    /\ "rule_type" \in DOMAIN update_data =>
           update_data.rule_type \in {"percentage", "fixed_amount", "custom"}
    /\ ("min_quantity" \in DOMAIN update_data /\ update_data.min_quantity /= NULL) =>
           Val(update_data.min_quantity) >= 1

(* update_data is pricing_rule_update.dict(exclude_unset=True): every field *)
(* the request names is assigned, None included                            *)
update_pricing_rule(rule_id, update_data) ==
    /\ writes < MaxWrites
    /\ writes' = writes + 1
    /\ IF ~PricingRuleUpdateValid(update_data)
       THEN /\ call' = [op |-> "update_pricing_rule", status |-> 422]
            /\ UNCHANGED rules
       ELSE IF Row(rules, rule_id) = NULL
       THEN /\ call' = [op |-> "update_pricing_rule", status |-> 404]
            /\ UNCHANGED rules
       ELSE /\ rules' = [rules EXCEPT ![rule_id] =
                   [f \in DOMAIN @ |-> IF f \in DOMAIN update_data
                                       THEN update_data[f] ELSE @[f]]]
            /\ call' = [op |-> "update_pricing_rule", status |-> 200]
    /\ UNCHANGED <<partners, products, skus, now>>

(* variant: the row is removed *)
delete_pricing_rule_row(rule_id) ==
    /\ writes < MaxWrites
    /\ writes' = writes + 1
    /\ IF Row(rules, rule_id) = NULL
       THEN /\ call' = [op |-> "delete_pricing_rule", rule_id |-> rule_id, status |-> 404]
            /\ UNCHANGED rules
       ELSE /\ rules' = [rules EXCEPT ![rule_id] = NULL]
            /\ call' = [op |-> "delete_pricing_rule", rule_id |-> rule_id, status |-> 200]
    /\ UNCHANGED <<partners, products, skus, now>>

delete_pricing_rule(rule_id) ==
    /\ writes < MaxWrites
    /\ writes' = writes + 1
    /\ IF Row(rules, rule_id) = NULL
       THEN /\ call' = [op |-> "delete_pricing_rule", rule_id |-> rule_id, status |-> 404]
            /\ UNCHANGED rules
       ELSE /\ rules' = [rules EXCEPT ![rule_id].is_active = Some(FALSE)]
            /\ call' = [op |-> "delete_pricing_rule", rule_id |-> rule_id, status |-> 200]
    /\ UNCHANGED <<partners, products, skus, now>>

(* time passes between requests *)
Tick ==
    /\ now < MaxNow
    /\ now' = now + 1
    /\ call' = [op |-> "tick"]
    /\ UNCHANGED <<partners, products, skus, rules, writes>>

-----------------------------------------------------------------------------
(* rule path calls *)

(* variant: a broken SKU -> product -> partner chain gives zero *)
calculate_price_zero_fallback(sku_id, cost_price, quantity) ==
    LET sku == Row(skus, sku_id)
        fallback == \/ sku = NULL
                    \/ ProductOf(sku) = NULL
                    \/ PartnerOf(ProductOf(sku)) = NULL
    IN  /\ IF fallback
           THEN call' = [op |-> "calculate_price", sku_id |-> sku_id,
                         cost_price |-> cost_price, quantity |-> quantity,
                         resolved |-> FALSE, pricing_rules |-> <<>>,
                         ret |-> DecZero, again |-> FALSE, prev_ret |-> NULL]
           ELSE \E pricing_rules \in get_applicable_pricing_rules(
                        Val(ProductOf(sku).partner_id), ProductOf(sku).category, quantity) :
                    call' = [op |-> "calculate_price", sku_id |-> sku_id,
                             cost_price |-> cost_price, quantity |-> quantity,
                             resolved |-> TRUE, pricing_rules |-> pricing_rules,
                             ret |-> FoldFromCost(cost_price, pricing_rules, quantity),
                             again |-> FALSE, prev_ret |-> NULL]
        /\ UNCHANGED <<partners, products, skus, rules, now, writes>>

calculate_price(sku_id, cost_price, quantity) ==
    LET sku == Row(skus, sku_id)
        fallback == \/ sku = NULL
                    \/ ProductOf(sku) = NULL
                    \/ PartnerOf(ProductOf(sku)) = NULL
        again == /\ call.op = "calculate_price"
                 /\ call.sku_id = sku_id
                 /\ call.cost_price = cost_price
                 /\ call.quantity = quantity
    IN  /\ IF fallback
           THEN call' = [op |-> "calculate_price", sku_id |-> sku_id,
                         cost_price |-> cost_price, quantity |-> quantity,
                         resolved |-> FALSE, pricing_rules |-> <<>>,
                         ret |-> cost_price,
                         again |-> again,
                         prev_ret |-> IF again THEN call.ret ELSE NULL]
           ELSE \E pricing_rules \in get_applicable_pricing_rules(
                        Val(ProductOf(sku).partner_id), ProductOf(sku).category, quantity) :
                    call' = [op |-> "calculate_price", sku_id |-> sku_id,
                             cost_price |-> cost_price, quantity |-> quantity,
                             resolved |-> TRUE, pricing_rules |-> pricing_rules,
                             ret |-> FoldFromCost(cost_price, pricing_rules, quantity),
                             again |-> again,
                             prev_ret |-> IF again THEN call.ret ELSE NULL]
        /\ UNCHANGED <<partners, products, skus, rules, now, writes>>

calculate_price_for_product(product_id, cost_price, quantity) ==
    LET product == Row(products, product_id)
        fallback == product = NULL \/ PartnerOf(product) = NULL
    IN  /\ IF fallback
           THEN call' = [op |-> "calculate_price_for_product", product_id |-> product_id,
                         cost_price |-> cost_price, quantity |-> quantity,
                         resolved |-> FALSE, pricing_rules |-> <<>>,
                         ret |-> cost_price]
           ELSE \E pricing_rules \in get_applicable_pricing_rules(
                        Val(product.partner_id), product.category, quantity) :
                    call' = [op |-> "calculate_price_for_product", product_id |-> product_id,
                             cost_price |-> cost_price, quantity |-> quantity,
                             resolved |-> TRUE, pricing_rules |-> pricing_rules,
                             ret |-> FoldFromCost(cost_price, pricing_rules, quantity)]
        /\ UNCHANGED <<partners, products, skus, rules, now, writes>>

CostInputs == {Dec(100000), Cents(10001)}

RuleInit ==
    /\ partners = [p \in PartnerIds |-> LegacyPartner]
    /\ products = InitProducts
    /\ skus = [i \in SkuIds |->
                  IF i = 1 THEN [product_id |-> Some("A"), base_price |-> Dec(100000),
                                 final_price |-> NULL]
                  ELSE IF i = 2 THEN [product_id |-> Some("B"), base_price |-> Dec(100000),
                                      final_price |-> NULL]
                  ELSE NULL]
    /\ rules = [i \in RuleIds |-> NULL]
    /\ now = 0
    /\ writes = 0
    /\ call = NoCall
    /\ accounts = NoAccounts
    /\ settlements = <<>>
    /\ quote = NoQuote
    /\ deleting = {}
    /\ stock = NoStock
    /\ inventory_updates = <<>>
    /\ orders = NoOrders
    /\ batch = NoBatch

(* a PricingRuleCreate request that leaves the optional fields at their     *)
(* defaults                                                                *)
PricingRuleCreate(partner_id, rule_type, rule_value, priority) ==
    [partner_id |-> partner_id, rule_type |-> rule_type, rule_value |-> rule_value,
     min_quantity |-> 1, max_quantity |-> NULL, category_filter |-> NULL,
     priority |-> priority, is_active |-> TRUE, valid_from |-> NULL, valid_until |-> NULL]

RuleKinds == {<<"percentage", Dec(10)>>, <<"fixed_amount", Dec(2000)>>,
              <<"custom", NULL>>, <<"percentage", NULL>>}

CreatePricingRule ==
    \E kind \in RuleKinds, priority \in {5, 10} :
        create_pricing_rule(PricingRuleCreate("p1", kind[1], kind[2], priority))

RuleEdits == {[priority |-> Some(5)], [priority |-> Some(10)], [rule_value |-> Dec(-50)]}

UpdatePricingRule ==
    \E rule_id \in RuleIds, update_data \in RuleEdits :
        update_pricing_rule(rule_id, update_data)

DeletePricingRule ==
    \E rule_id \in RuleIds : delete_pricing_rule(rule_id)

CalculatePrice ==
    \E sku_id \in SkuIds \cup {0}, cost_price \in CostInputs, quantity \in {1} :
        calculate_price(sku_id, cost_price, quantity)

CalculatePriceForProduct ==
    \E product_id \in ProductIds \cup {"Z"}, cost_price \in {Dec(100000)}, quantity \in {1} :
        calculate_price_for_product(product_id, cost_price, quantity)

ApplyPricingRule ==
    \E rule_id \in RuleIds, current_price \in CostInputs, quantity \in {1} :
        /\ rules[rule_id] /= NULL
        /\ call' = [op |-> "_apply_pricing_rule", current_price |-> current_price,
                    rule |-> rules[rule_id], quantity |-> quantity,
                    ret |-> apply_pricing_rule(current_price, rules[rule_id], quantity)]
        /\ UNCHANGED <<partners, products, skus, rules, now, writes>>

RuleNext ==
    \/ CreatePricingRule /\ UNCHANGED others
    \/ UpdatePricingRule /\ UNCHANGED others
    \/ DeletePricingRule /\ UNCHANGED others
    \/ CalculatePrice /\ UNCHANGED others
    \/ CalculatePriceForProduct /\ UNCHANGED others
    \/ ApplyPricingRule /\ UNCHANGED others

RuleSpec == RuleInit /\ [][RuleNext]_vars

-----------------------------------------------------------------------------
(* the rule query on its own *)

FilterEdits == {[min_quantity |-> Some(5)], [min_quantity |-> NULL],
                [max_quantity |-> Some(4)], [category_filter |-> Some("shoes")],
                [valid_from |-> Some(1)], [valid_from |-> NULL],
                [valid_until |-> Some(0)], [is_active |-> NULL]}

CreateRuleOfPartner ==
    \E partner_id \in PartnerIds :
        create_pricing_rule(PricingRuleCreate(partner_id, "percentage", Dec(10), 5))

UpdateRuleFilter ==
    \E rule_id \in RuleIds, update_data \in FilterEdits :
        update_pricing_rule(rule_id, update_data)

GetApplicablePricingRules ==
    \E partner_id \in PartnerIds, category \in {NULL, Some("shoes"), Some("bags")},
       quantity \in {4, 5} :
        \E pricing_rules \in get_applicable_pricing_rules(partner_id, category, quantity) :
            /\ call' = [op |-> "_get_applicable_pricing_rules", partner_id |-> partner_id,
                        category |-> category, quantity |-> quantity, ret |-> pricing_rules]
            /\ UNCHANGED <<partners, products, skus, rules, now, writes>>

FilterNext ==
    \/ CreateRuleOfPartner /\ UNCHANGED others
    \/ UpdateRuleFilter /\ UNCHANGED others
    \/ DeletePricingRule /\ UNCHANGED others
    \/ Tick /\ UNCHANGED others
    \/ GetApplicablePricingRules /\ UNCHANGED others

FilterSpec == RuleInit /\ [][FilterNext]_vars

-----------------------------------------------------------------------------
(* the price-ending normalizer on its own *)

MaxPriceCents == 600

MaxEndingDigit == 9

(* 17999119599.000001, what the calculator makes of it at 99.99 percent,   *)
(* and two prices next to it                                                *)
LargePriceInputs ==
    {calculate_price_with_profit(LargeBasePrice, Cents(9999), DecZero),
     DecOf(1, <<1, 7999, 1195, 9900, 3>>, -6),
     DecOf(1, <<1, 7999, 1196, 0, 1>>, -6)}

PriceInputs == {Cents(k) : k \in 0 .. MaxPriceCents}
                   \cup {Dec(125000), Dec(125137), DecNorm(125137, -3), Cents(-250)}
                   \cup LargePriceInputs

EndingDigitInputs == (-1 .. MaxEndingDigit) \cup {1000}

NormalizerInit ==
    /\ partners = InitPartners
    /\ products = InitProducts
    /\ skus = [i \in SkuIds |-> NULL]
    /\ rules = [i \in RuleIds |-> NULL]
    /\ now = 0
    /\ writes = 0
    /\ call \in {[op |-> "arguments", price |-> price, ending_digit |-> ending_digit] :
                    price \in PriceInputs, ending_digit \in EndingDigitInputs}
    /\ accounts = NoAccounts
    /\ settlements = <<>>
    /\ quote = NoQuote
    /\ deleting = {}
    /\ stock = NoStock
    /\ inventory_updates = <<>>
    /\ orders = NoOrders
    /\ batch = NoBatch

ApplyPriceEnding ==
    /\ call.op = "arguments"
    /\ call' = [op |-> "_apply_price_ending", price |-> call.price,
                ending_digit |-> call.ending_digit,
                ret |-> apply_price_ending(call.price, call.ending_digit)]
    /\ UNCHANGED <<partners, products, skus, rules, now, writes>>

NormalizerNext == ApplyPriceEnding /\ UNCHANGED others

NormalizerSpec == NormalizerInit /\ [][NormalizerNext]_vars

-----------------------------------------------------------------------------
(* bulk recompute over SKUs whose recomputation or storage can fail *)

(* 9000000000.00, a base price DECIMAL(12, 2) holds *)
BigBasePrice == DecNorm(9, 9)

BatchBasePrices == {DecNaN, Dec(100000), Cents(10001), BigBasePrice}

CreateBulkSkusOfPartner ==
    \E base_price \in BatchBasePrices : create_bulk_skus("A", base_price, NULL)

BatchNext ==
    \/ UpdatePartner /\ UNCHANGED others
    \/ CreateBulkSkusOfPartner /\ UNCHANGED others
    \/ UpdateSkuFinalPrices /\ UNCHANGED others

BatchSpec == Init /\ [][BatchNext]_vars

-----------------------------------------------------------------------------
(* both pricing paths over one partner that has formula fields and rules *)

UpdateFormulaOfPartner ==
    \E price_ending_digit \in {NULL, Some(1000)} :
        update_partner("p1", Dec(20), Dec(5000), price_ending_digit)

CreateRuleForPaths ==
    \E rule \in {<<"percentage", Dec(10), 10>>, <<"fixed_amount", Dec(2000), 5>>} :
        create_pricing_rule(PricingRuleCreate("p1", rule[1], rule[2], rule[3]))

CalculateFormulaForPaths ==
    \E base_price \in CostInputs, quantity \in {1, 5} :
        /\ call' = [op |-> "calculate_final_price_with_formula",
                    base_price |-> base_price,
                    partner_id |-> "p1",
                    quantity |-> quantity,
                    ret |-> calculate_final_price_with_formula(base_price, "p1", quantity)]
        /\ UNCHANGED <<partners, products, skus, rules, now, writes>>

CalculatePriceForPaths ==
    \E cost_price \in CostInputs : calculate_price(1, cost_price, 1)

(* a pricing call may be kept, with the rows it was made over, to compare  *)
(* a later call with                                                       *)
KeepQuote ==
    /\ quote' \in {quote, [call |-> call', partners |-> partners, rules |-> rules]}
    /\ UNCHANGED <<accounts, settlements, deleting, inventory, batch>>

PathsNext ==
    \/ UpdateFormulaOfPartner /\ UNCHANGED others
    \/ CreateRuleForPaths /\ UNCHANGED others
    \/ CalculateFormulaForPaths /\ KeepQuote
    \/ CalculatePriceForPaths /\ KeepQuote

PathsSpec == RuleInit /\ [][PathsNext]_vars

-----------------------------------------------------------------------------
(* formula calls between partner updates and bulk recomputes *)

CreateSkuOfPartner ==
    \E base_price \in CostInputs : create_bulk_skus("A", base_price, NULL)

StaleNext ==
    \/ UpdatePartner /\ UNCHANGED others
    \/ CreateSkuOfPartner /\ UNCHANGED others
    \/ UpdateSkuFinalPrices /\ UNCHANGED others
    \/ CalculateFormulaForPaths /\ UNCHANGED others

StaleSpec == Init /\ [][StaleNext]_vars

-----------------------------------------------------------------------------
(* partner endpoints: credit limit and debt *)

(* PartnerBase: credit_limit = Field(0, ge=0), Optional *)
PartnerCreateValid(credit_limit) ==
    credit_limit /= NULL => DecLe(DecZero, credit_limit)

FreePartnerIds == {p \in PartnerIds : partners[p] = NULL}

(* create_partner: PartnerCreate drops the request's user_id, so the row is *)
(* stored only by a partners table that takes a row without user_id;       *)
(* otherwise the INSERT fails and nothing is stored                        *)
create_partner(credit_limit, stored) ==
    /\ writes < MaxWrites
    /\ writes' = writes + 1
    /\ IF ~PartnerCreateValid(credit_limit)
       THEN /\ call' = [op |-> "create_partner", status |-> 422]
            /\ UNCHANGED <<partners, accounts>>
       ELSE IF ~stored
       THEN /\ call' = [op |-> "create_partner", status |-> 500]
            /\ UNCHANGED <<partners, accounts>>
       ELSE /\ FreePartnerIds /= {}
            /\ LET id == CHOOSE p \in FreePartnerIds : TRUE
               IN  /\ partners' = [partners EXCEPT ![id] =
                           [profit_percentage |-> DecZero, fixed_amount |-> DecZero,
                            price_ending_digit |-> Some(0)]]
                   /\ accounts' = [accounts EXCEPT ![id] =
                           [credit_limit |-> StoreNumeric2(credit_limit),
                            current_debt |-> DecZero]]
                   /\ call' = [op |-> "create_partner", status |-> 200]
    /\ UNCHANGED <<products, skus, rules, now, settlements, quote, deleting, inventory, batch>>

(* PartnerUpdate: credit_limit = Field(None, ge=0), current_debt = Field(None) *)
PartnerUpdateAccountValid(credit_limit, current_debt) ==
    credit_limit /= NULL => DecLe(DecZero, credit_limit)

(* update_partner with credit_limit and current_debt in the request body *)
update_partner_account(partner_id, credit_limit, current_debt) ==
    /\ writes < MaxWrites
    /\ writes' = writes + 1
    /\ IF ~PartnerUpdateAccountValid(credit_limit, current_debt)
       THEN /\ call' = [op |-> "update_partner", status |-> 422]
            /\ UNCHANGED accounts
       ELSE IF Row(partners, partner_id) = NULL
       THEN /\ call' = [op |-> "update_partner", status |-> 404]
            /\ UNCHANGED accounts
       ELSE /\ accounts' = [accounts EXCEPT ![partner_id] =
                   [@ EXCEPT !.credit_limit = Assign(@, StoreNumeric2(credit_limit)),
                             !.current_debt = Assign(@, StoreNumeric2(current_debt))]]
            /\ call' = [op |-> "update_partner", status |-> 200]
    /\ UNCHANGED <<partners, products, skus, rules, now, settlements, quote, deleting, inventory, batch>>

(* update_partner_debt: new_debt after max(new_debt, Decimal('0')) *)
new_debt(account, amount, operation) ==
    LET current_debt == OrZero(account.current_debt)
        sum == IF operation = "add" THEN DecAdd(current_debt, amount)
               ELSE IF operation = "subtract" THEN DecSub(current_debt, amount)
               ELSE amount
    IN  IF DecLt(sum, DecZero) THEN DecZero ELSE sum

(* "credit_limit > 0 and new_debt > credit_limit" *)
ExceedsCreditLimit(account, debt) ==
    /\ DecLt(DecZero, OrZero(account.credit_limit))
    /\ DecLt(OrZero(account.credit_limit), debt)

(* the settlement record of a subtract operation *)
SettlementRecord(partner_id, amount, account, operation) ==
    [partner_id |-> partner_id, amount |-> amount,
     previous_debt |-> OrZero(account.current_debt),
     remaining_debt |-> new_debt(account, amount, operation)]

(* variant: a debt over the limit is stored as the limit *)
update_partner_debt_clamped(partner_id, amount, operation) ==
    /\ writes < MaxWrites
    /\ writes' = writes + 1
    /\ IF Row(partners, partner_id) = NULL
       THEN /\ call' = [op |-> "update_partner_debt", partner_id |-> partner_id,
                        amount |-> amount, operation |-> operation, status |-> 404]
            /\ UNCHANGED <<accounts, settlements>>
       ELSE IF operation \notin {"add", "subtract", "set"}
       THEN /\ call' = [op |-> "update_partner_debt", partner_id |-> partner_id,
                        amount |-> amount, operation |-> operation, status |-> 400]
            /\ UNCHANGED <<accounts, settlements>>
       ELSE LET account == accounts[partner_id]
                debt == new_debt(account, amount, operation)
                kept == IF ExceedsCreditLimit(account, debt)
                        THEN account.credit_limit ELSE debt
            IN  /\ accounts' = [accounts EXCEPT ![partner_id].current_debt =
                                    StoreNumeric2(kept)]
                /\ settlements' =
                       IF operation = "subtract" /\ DecLt(DecZero, amount)
                       THEN Append(settlements,
                                   SettlementRecord(partner_id, amount, account, operation))
                       ELSE settlements
                /\ call' = [op |-> "update_partner_debt", partner_id |-> partner_id,
                            amount |-> amount, operation |-> operation, status |-> 200]
    /\ UNCHANGED <<partners, products, skus, rules, now, quote, deleting, inventory, batch>>

update_partner_debt(partner_id, amount, operation) ==
    /\ writes < MaxWrites
    /\ writes' = writes + 1
    /\ IF Row(partners, partner_id) = NULL
       THEN /\ call' = [op |-> "update_partner_debt", partner_id |-> partner_id,
                        amount |-> amount, operation |-> operation, status |-> 404]
            /\ UNCHANGED <<accounts, settlements>>
       ELSE IF operation \notin {"add", "subtract", "set"}
       THEN /\ call' = [op |-> "update_partner_debt", partner_id |-> partner_id,
                        amount |-> amount, operation |-> operation, status |-> 400]
            /\ UNCHANGED <<accounts, settlements>>
       ELSE LET account == accounts[partner_id]
                debt == new_debt(account, amount, operation)
            IN  IF ExceedsCreditLimit(account, debt)
                THEN /\ call' = [op |-> "update_partner_debt", partner_id |-> partner_id,
                                 amount |-> amount, operation |-> operation,
                                 status |-> 400]
                     /\ UNCHANGED <<accounts, settlements>>
                ELSE /\ accounts' = [accounts EXCEPT ![partner_id].current_debt =
                                         StoreNumeric2(debt)]
                     /\ settlements' =
                            IF operation = "subtract" /\ DecLt(DecZero, amount)
                            THEN Append(settlements,
                                        SettlementRecord(partner_id, amount, account,
                                                         operation))
                            ELSE settlements
                     /\ call' = [op |-> "update_partner_debt", partner_id |-> partner_id,
                                 amount |-> amount, operation |-> operation,
                                 status |-> 200]
    /\ UNCHANGED <<partners, products, skus, rules, now, quote, deleting, inventory, batch>>

(* one partner stored with the column defaults, no product *)
AccountInit ==
    /\ partners = InitPartners
    /\ products = [p \in ProductIds |-> NULL]
    /\ skus = [i \in SkuIds |-> NULL]
    /\ rules = [i \in RuleIds |-> NULL]
    /\ now = 0
    /\ writes = 0
    /\ call = NoCall
    /\ accounts = [p \in PartnerIds |->
                      IF p = "p1" THEN [credit_limit |-> DecZero, current_debt |-> DecZero]
                      ELSE NoAccounts[p]]
    /\ settlements = <<>>
    /\ quote = NoQuote
    /\ deleting = {}
    /\ stock = NoStock
    /\ inventory_updates = <<>>
    /\ orders = NoOrders
    /\ batch = NoBatch

LimitInputs == {NULL, Dec(-5000), Dec(5000)}

AmountInputs == {Dec(-5000), Dec(3000), Dec(8000)}

CreatePartner ==
    \E credit_limit \in LimitInputs, stored \in BOOLEAN :
        create_partner(credit_limit, stored)

UpdatePartnerAccount ==
    \E credit_limit \in LimitInputs, current_debt \in {NULL} \cup AmountInputs :
        update_partner_account("p1", credit_limit, current_debt)

UpdatePartnerDebt ==
    \E partner_id \in PartnerIds, amount \in AmountInputs,
       operation \in {"add", "subtract", "set", "clear"} :
        update_partner_debt(partner_id, amount, operation)

AccountNext ==
    \/ CreatePartner
    \/ UpdatePartnerAccount
    \/ UpdatePartnerDebt

AccountSpec == AccountInit /\ [][AccountNext]_vars

-----------------------------------------------------------------------------
(* partner removal and product creation *)

FreeProductIds == {p \in ProductIds : products[p] = NULL}

(* the rows "Product.partner_id == partner_uuid" selects *)
ProductsOf(partner_id) ==
    {p \in ProductIds : products[p] /= NULL /\ products[p].partner_id = Some(partner_id)}

(* create_product: the INSERT fails on the foreign key when the partner is *)
(* not stored; update_sku_final_prices then runs over the new product,     *)
(* which has no SKU yet                                                    *)
create_product(partner_id, category) ==
    /\ FreeProductIds /= {}
    /\ LET id == CHOOSE p \in FreeProductIds : TRUE
       IN  IF Row(partners, partner_id) = NULL
           THEN /\ call' = [op |-> "create_product", status |-> 400]
                /\ UNCHANGED products
           ELSE /\ SelectedSkus(Some(id)) = {}
                /\ products' = [products EXCEPT ![id] =
                        [partner_id |-> Some(partner_id), category |-> category]]
                /\ call' = [op |-> "create_product", status |-> 200]
    /\ UNCHANGED <<partners, skus, rules, now, writes, accounts, settlements, quote,
                   deleting, inventory, batch>>

(* delete_partner up to the product count: the request goes on to remove   *)
(* the partner when it counted no product                                  *)
delete_partner_count(partner_id) ==
    /\ partner_id \notin deleting
    /\ IF Row(partners, partner_id) = NULL
       THEN /\ call' = [op |-> "delete_partner", status |-> 404]
            /\ UNCHANGED deleting
       ELSE IF Cardinality(ProductsOf(partner_id)) > 0
       THEN /\ call' = [op |-> "delete_partner", status |-> 400]
            /\ UNCHANGED deleting
       ELSE /\ deleting' = deleting \cup {partner_id}
            /\ UNCHANGED call
    /\ UNCHANGED <<partners, products, skus, rules, now, writes, accounts, settlements,
                   quote, inventory, batch>>

(* delete_partner from partner_crud.remove on: the flush loads              *)
(* Partner.products and sets partner_id of each to NULL, deletes the        *)
(* partner's settlements and the partner; a pricing rule of the partner     *)
(* makes the DELETE fail on its foreign key                                 *)
delete_partner_remove(partner_id) ==
    /\ partner_id \in deleting
    /\ deleting' = deleting \ {partner_id}
    /\ IF \E i \in RuleIds : rules[i] /= NULL /\ rules[i].partner_id = Some(partner_id)
       THEN /\ call' = [op |-> "delete_partner", status |-> 500]
            /\ UNCHANGED <<partners, products, accounts, settlements>>
       ELSE /\ products' = [p \in ProductIds |->
                               IF p \in ProductsOf(partner_id)
                               THEN [products[p] EXCEPT !.partner_id = NULL]
                               ELSE products[p]]
            /\ settlements' = SelectSeq(settlements,
                                        LAMBDA r : r.partner_id /= partner_id)
            /\ partners' = [partners EXCEPT ![partner_id] = NULL]
            /\ accounts' = [accounts EXCEPT ![partner_id] = NoAccounts[partner_id]]
            /\ call' = [op |-> "delete_partner", status |-> 200]
    /\ UNCHANGED <<skus, rules, now, writes, quote, inventory, batch>>

CreateProduct ==
    \E partner_id \in PartnerIds, category \in {NULL, Some("shoes")} :
        create_product(partner_id, category)

DeletePartnerCount == \E partner_id \in PartnerIds : delete_partner_count(partner_id)

DeletePartnerRemove == \E partner_id \in PartnerIds : delete_partner_remove(partner_id)

OwnerNext ==
    \/ CreatePartner
    \/ CreateProduct
    \/ DeletePartnerCount
    \/ DeletePartnerRemove

OwnerSpec == AccountInit /\ [][OwnerNext]_vars

-----------------------------------------------------------------------------
(* rule values under creation and update *)

ValueEdits == {[rule_value |-> NULL], [rule_value |-> Dec(10)],
               [rule_type |-> "percentage"], [rule_type |-> "custom"]}

UpdateRuleValue ==
    \E rule_id \in RuleIds, update_data \in ValueEdits :
        update_pricing_rule(rule_id, update_data)

ValueNext ==
    \/ CreatePricingRule /\ UNCHANGED others
    \/ UpdateRuleValue /\ UNCHANGED others
    \/ ApplyPricingRule /\ UNCHANGED others

ValueSpec == RuleInit /\ [][ValueNext]_vars

-----------------------------------------------------------------------------
(* inventory: services/inventory_update_service.py *)

(* the InventoryUpdate row built by _create_inventory_update_log *)
_create_inventory_update_log(sku_id, old_quantity, new_quantity, update_type) ==
    [sku_id |-> sku_id, old_quantity |-> old_quantity, new_quantity |-> new_quantity,
     update_type |-> update_type]

NewResults == [updated |-> 0, errors |-> <<>>, insufficient_stock |-> <<>>]

(* the AsyncSession of one request: the SKU objects it has loaded, their   *)
(* quantity as loaded, the results being built, the log rows added and     *)
(* whether the loop raised                                                 *)
NewSession == [read |-> {}, loaded |-> NoStock, view |-> NoStock,
               results |-> NewResults, log |-> <<>>, raised |-> FALSE]

(* self.db.get(SKU, sku_id): the object of the identity map when the       *)
(* session has loaded the row, the stored row otherwise                    *)
session_get(session, stored, sku_id) ==
    IF sku_id \in session.read THEN session.view[sku_id] ELSE Row(stored, sku_id)

(* variant: the stock test accepts an order one larger than the quantity *)
process_order_item_off_by_one(session, stored, item) ==
    LET sku_id == item.sku_id
        quantity_ordered == item.quantity_ordered
        sku == session_get(session, stored, sku_id)
        seen == [session EXCEPT !.read = @ \cup {sku_id},
                                !.loaded[sku_id] = IF sku_id \in session.read
                                                   THEN @ ELSE sku,
                                !.view[sku_id] = sku]
    IN  IF sku = NULL
        THEN [session EXCEPT !.results.errors = Append(@, sku_id)]
        ELSE IF sku.quantity = NULL
        THEN [seen EXCEPT !.raised = TRUE]
        ELSE IF Val(sku.quantity) + 1 < quantity_ordered
        THEN [seen EXCEPT !.results.insufficient_stock =
                  Append(@, [sku_id |-> sku_id, available |-> Val(sku.quantity),
                             requested |-> quantity_ordered])]
        ELSE [seen EXCEPT !.view[sku_id].quantity = Some(Val(sku.quantity) - quantity_ordered),
                          !.log = Append(@, _create_inventory_update_log(
                                      sku_id, sku.quantity,
                                      Some(Val(sku.quantity) - quantity_ordered),
                                      "order_placed")),
                          !.results.updated = @ + 1]

(* one pass of the loop of process_order_inventory_update; comparing a     *)
(* NULL quantity with the ordered quantity raises TypeError                *)
process_order_item(session, stored, item) ==
    LET sku_id == item.sku_id
        quantity_ordered == item.quantity_ordered
        sku == session_get(session, stored, sku_id)
        seen == [session EXCEPT !.read = @ \cup {sku_id},
                                !.loaded[sku_id] = IF sku_id \in session.read
                                                   THEN @ ELSE sku,
                                !.view[sku_id] = sku]
    IN  IF sku = NULL
        THEN [session EXCEPT !.results.errors = Append(@, sku_id)]
        ELSE IF sku.quantity = NULL
        THEN [seen EXCEPT !.raised = TRUE]
        ELSE IF Val(sku.quantity) < quantity_ordered
        THEN [seen EXCEPT !.results.insufficient_stock =
                  Append(@, [sku_id |-> sku_id, available |-> Val(sku.quantity),
                             requested |-> quantity_ordered])]
        ELSE [seen EXCEPT !.view[sku_id].quantity = Some(Val(sku.quantity) - quantity_ordered),
                          !.log = Append(@, _create_inventory_update_log(
                                      sku_id, sku.quantity,
                                      Some(Val(sku.quantity) - quantity_ordered),
                                      "order_placed")),
                          !.results.updated = @ + 1]

RECURSIVE process_order_items(_, _, _)
process_order_items(session, stored, order_items) ==
    IF order_items = <<>> \/ session.raised
    THEN session
    ELSE process_order_items(process_order_item(session, stored, Head(order_items)),
                             stored, Tail(order_items))

(* the rows whose quantity the flush writes: the attribute differs from    *)
(* the value loaded                                                        *)
DirtySkus(session) ==
    {i \in session.read : session.view[i].quantity /= session.loaded[i].quantity}

(* self.db.commit(), or rollback when the loop raised: the UPDATE of each  *)
(* dirty row carries the quantity held by the session, the log rows are    *)
(* inserted                                                                *)
commit_order(session) ==
    IF session.raised
    THEN UNCHANGED <<stock, inventory_updates>>
    ELSE /\ stock' = [i \in SkuIds |->
                         IF i \in DirtySkus(session)
                         THEN [stock[i] EXCEPT !.quantity = session.view[i].quantity]
                         ELSE stock[i]]
         /\ inventory_updates' = inventory_updates \o session.log

order_result(session) ==
    IF session.raised THEN Raise("TypeError") ELSE session.results

process_order_inventory_update(order_items) ==
    /\ writes < MaxWrites
    /\ writes' = writes + 1
    /\ LET session == process_order_items(NewSession, stock, order_items)
       IN  /\ commit_order(session)
           /\ call' = [op |-> "process_order_inventory_update",
                       order_items |-> order_items, raised |-> session.raised,
                       ret |-> order_result(session)]
    /\ UNCHANGED <<partners, products, skus, rules, now, accounts, settlements, quote,
                   deleting, orders, batch>>

(* variant: the quantity before the call is not kept for the result *)
manual_inventory_update_new_as_old(sku_id, new_quantity) ==
    /\ writes < MaxWrites
    /\ writes' = writes + 1
    /\ LET sku == Row(stock, sku_id)
       IN  IF sku = NULL
           THEN /\ call' = [op |-> "manual_inventory_update", sku_id |-> sku_id,
                            new_quantity |-> new_quantity, raised |-> TRUE,
                            ret |-> Raise("SKU not found")]
                /\ UNCHANGED <<stock, inventory_updates>>
           ELSE /\ stock' = [stock EXCEPT ![sku_id].quantity = Some(new_quantity)]
                /\ inventory_updates' = Append(inventory_updates,
                       _create_inventory_update_log(sku_id, Some(new_quantity),
                                                    Some(new_quantity), "manual"))
                /\ call' = [op |-> "manual_inventory_update", sku_id |-> sku_id,
                            new_quantity |-> new_quantity, raised |-> FALSE,
                            ret |-> [sku_id |-> sku_id, old_quantity |-> Some(new_quantity),
                                     new_quantity |-> new_quantity]]
    /\ UNCHANGED <<partners, products, skus, rules, now, accounts, settlements, quote,
                   deleting, orders, batch>>

manual_inventory_update(sku_id, new_quantity) ==
    /\ writes < MaxWrites
    /\ writes' = writes + 1
    /\ LET sku == Row(stock, sku_id)
       IN  IF sku = NULL
           THEN /\ call' = [op |-> "manual_inventory_update", sku_id |-> sku_id,
                            new_quantity |-> new_quantity, raised |-> TRUE,
                            ret |-> Raise("SKU not found")]
                /\ UNCHANGED <<stock, inventory_updates>>
           ELSE /\ stock' = [stock EXCEPT ![sku_id].quantity = Some(new_quantity)]
                /\ inventory_updates' = Append(inventory_updates,
                       _create_inventory_update_log(sku_id, sku.quantity,
                                                    Some(new_quantity), "manual"))
                /\ call' = [op |-> "manual_inventory_update", sku_id |-> sku_id,
                            new_quantity |-> new_quantity, raised |-> FALSE,
                            ret |-> [sku_id |-> sku_id, old_quantity |-> sku.quantity,
                                     new_quantity |-> new_quantity]]
    /\ UNCHANGED <<partners, products, skus, rules, now, accounts, settlements, quote,
                   deleting, orders, batch>>

(* variant: the threshold itself does not count as low *)
get_low_stock_items_below(threshold) ==
    /\ call' = [op |-> "get_low_stock_items", threshold |-> threshold,
                ret |-> {[sku_id |-> i, current_quantity |-> Val(stock[i].quantity)] :
                            i \in {j \in SkuIds : /\ stock[j] /= NULL
                                                  /\ stock[j].quantity /= NULL
                                                  /\ Val(stock[j].quantity) < threshold
                                                  /\ stock[j].is_active = Some(TRUE)}}]
    /\ UNCHANGED <<db, now, writes, others>>

(* WHERE quantity <= threshold AND is_active = true: a NULL in either     *)
(* column leaves the row out                                              *)
get_low_stock_items(threshold) ==
    /\ call' = [op |-> "get_low_stock_items", threshold |-> threshold,
                ret |-> {[sku_id |-> i, current_quantity |-> Val(stock[i].quantity)] :
                            i \in {j \in SkuIds : /\ stock[j] /= NULL
                                                  /\ stock[j].quantity /= NULL
                                                  /\ Val(stock[j].quantity) <= threshold
                                                  /\ stock[j].is_active = Some(TRUE)}}]
    /\ UNCHANGED <<db, now, writes, others>>

(* the second SKU as the requests find it: absent, well stocked, inactive, *)
(* without a quantity, or with is_active NULL                              *)
SecondSkus == {NULL,
               [quantity |-> Some(10), is_active |-> Some(TRUE)],
               [quantity |-> Some(3), is_active |-> Some(FALSE)],
               [quantity |-> NULL, is_active |-> Some(TRUE)],
               [quantity |-> Some(0), is_active |-> NULL]}

InitialQuantity == 5

InventoryInit ==
    /\ partners = InitPartners
    /\ products = InitProducts
    /\ \E second \in SecondSkus :
          /\ stock = [i \in SkuIds |->
                         IF i = 1 THEN [quantity |-> Some(InitialQuantity),
                                        is_active |-> Some(TRUE)]
                         ELSE IF i = 2 THEN second ELSE NULL]
          /\ skus = [i \in SkuIds |->
                        IF i = 1 \/ (i = 2 /\ second /= NULL)
                        THEN [product_id |-> Some("A"), base_price |-> NULL,
                              final_price |-> NULL]
                        ELSE NULL]
    /\ rules = [i \in RuleIds |-> NULL]
    /\ now = 0
    /\ writes = 0
    /\ call = NoCall
    /\ accounts = NoAccounts
    /\ settlements = <<>>
    /\ quote = NoQuote
    /\ deleting = {}
    /\ inventory_updates = <<>>
    /\ orders = NoOrders
    /\ batch = NoBatch

OrderItem(sku_id, quantity_ordered) ==
    [sku_id |-> sku_id, quantity_ordered |-> quantity_ordered]

(* orders that are covered, not covered, covered only before an earlier    *)
(* item of the same order, and that name a SKU that does not exist         *)
OrderInputs == {<<OrderItem(1, 2)>>,
                <<OrderItem(1, 5)>>,
                <<OrderItem(1, 6), OrderItem(2, 3)>>,
                <<OrderItem(1, 3), OrderItem(1, 3)>>,
                <<OrderItem(0, 1), OrderItem(2, 4), OrderItem(1, 1)>>}

ProcessOrderInventoryUpdate ==
    \E order_items \in OrderInputs : process_order_inventory_update(order_items)

ManualInventoryUpdate ==
    \E sku_id \in {0, 1, 2}, new_quantity \in {3, 10} :
        manual_inventory_update(sku_id, new_quantity)

GetLowStockItems ==
    \E threshold \in {3, 10} : get_low_stock_items(threshold)

InventoryNext ==
    \/ ProcessOrderInventoryUpdate
    \/ ManualInventoryUpdate
    \/ GetLowStockItems

InventorySpec == InventoryInit /\ [][InventoryNext]_vars

-----------------------------------------------------------------------------
(* order requests side by side: each runs process_order_inventory_update   *)
(* in a session of its own and gives way at every await on the database    *)

(* the request enters the handler with an empty session *)
order_begin(request, order_items) ==
    /\ writes < MaxWrites
    /\ writes' = writes + 1
    /\ orders[request] = NULL
    /\ orders' = [orders EXCEPT ![request] =
                     [order_items |-> order_items, pending |-> order_items,
                      session |-> NewSession]]
    /\ UNCHANGED <<db, now, call, accounts, settlements, quote, deleting, stock,
                   inventory_updates, batch>>

(* one pass of the loop: the await of db.get, then the test and the        *)
(* decrement on the object of the session, nothing sent to the database    *)
order_item(request) ==
    /\ orders[request] /= NULL
    /\ orders[request].pending /= <<>>
    /\ ~orders[request].session.raised
    /\ orders' = [orders EXCEPT ![request] =
                     [@ EXCEPT !.pending = Tail(@),
                               !.session = process_order_item(
                                               @, stock, Head(orders[request].pending))]]
    /\ UNCHANGED <<db, now, writes, call, accounts, settlements, quote, deleting, stock,
                   inventory_updates, batch>>

(* the loop is over: commit, or rollback and raise *)
order_commit(request) ==
    /\ orders[request] /= NULL
    /\ orders[request].pending = <<>> \/ orders[request].session.raised
    /\ commit_order(orders[request].session)
    /\ call' = [op |-> "process_order_inventory_update",
                order_items |-> orders[request].order_items,
                raised |-> orders[request].session.raised,
                ret |-> order_result(orders[request].session)]
    /\ orders' = [orders EXCEPT ![request] = NULL]
    /\ UNCHANGED <<db, now, writes, accounts, settlements, quote, deleting, batch>>

(* every SKU holds InitialQuantity *)
OrderInit ==
    /\ partners = InitPartners
    /\ products = InitProducts
    /\ skus = [i \in SkuIds |-> [product_id |-> Some("A"), base_price |-> NULL,
                                 final_price |-> NULL]]
    /\ rules = [i \in RuleIds |-> NULL]
    /\ now = 0
    /\ writes = 0
    /\ call = NoCall
    /\ accounts = NoAccounts
    /\ settlements = <<>>
    /\ quote = NoQuote
    /\ deleting = {}
    /\ stock = [i \in SkuIds |-> [quantity |-> Some(InitialQuantity),
                                  is_active |-> Some(TRUE)]]
    /\ inventory_updates = <<>>
    /\ orders = NoOrders
    /\ batch = NoBatch

ConcurrentOrders == {<<OrderItem(1, 3)>>,
                     <<OrderItem(1, 5)>>,
                     <<OrderItem(2, 6), OrderItem(1, 2)>>,
                     <<OrderItem(2, 0), OrderItem(2, 4)>>}

OrderBegin ==
    \E request \in RequestIds, order_items \in ConcurrentOrders :
        order_begin(request, order_items)

OrderItemStep == \E request \in RequestIds : order_item(request)

OrderCommit == \E request \in RequestIds : order_commit(request)

OrderNext ==
    \/ OrderBegin
    \/ OrderItemStep
    \/ OrderCommit

OrderSpec == OrderInit /\ [][OrderNext]_vars

-----------------------------------------------------------------------------
(* update_sku_final_prices step by step, next to partner edits: the        *)
(* request gives way at the select of the SKUs, at the select of the       *)
(* partner in every formula call and at the commit                         *)

(* calculate_final_price_with_formula with the partner object the session  *)
(* gets from its select                                                    *)
formula_price_of(base_price, partner) ==
    IF base_price = DecNaN THEN Raise("InvalidOperation")
    ELSE IF ~Truthy(base_price) \/ DecLe(base_price, DecZero) THEN DecZero
    ELSE IF partner = NULL THEN base_price
    ELSE apply_price_ending(
             calculate_price_with_profit(base_price, OrZero(partner.profit_percentage),
                                         OrZero(partner.fixed_amount)),
             OrZeroInt(partner.price_ending_digit))

(* the select of the SKUs with their products; no partner is loaded yet.   *)
(* versions keeps the rows the partners have held since the request began  *)
batch_begin(product_id) ==
    /\ batch = NULL
    /\ writes < MaxWrites
    /\ writes' = writes + 1
    /\ batch' = [product_id |-> product_id,
                 todo |-> {i \in SelectedSkus(product_id) : Recomputable(skus[i])},
                 partner_of |-> [i \in SkuIds |->
                                    IF skus[i] /= NULL /\ Recomputable(skus[i])
                                    THEN Val(ProductOf(skus[i]).partner_id) ELSE "none"],
                 read |-> {},
                 seen |-> [p \in PartnerIds |-> NULL],
                 new_final_price |-> [i \in SkuIds |-> NULL],
                 versions |-> [p \in PartnerIds |-> {partners[p]}]]
    /\ UNCHANGED <<db, now, call, accounts, settlements, quote, deleting, inventory>>

(* one pass of the loop: the select of the partner returns the object the  *)
(* session already holds, with the attributes it was loaded with, or loads *)
(* the stored row                                                          *)
batch_sku(i) ==
    /\ batch /= NULL
    /\ i \in batch.todo
    /\ LET partner_id == batch.partner_of[i]
           partner == IF partner_id \in batch.read THEN batch.seen[partner_id]
                      ELSE Row(partners, partner_id)
       IN  batch' = [batch EXCEPT
                        !.todo = @ \ {i},
                        !.read = IF partner = NULL THEN @ ELSE @ \cup {partner_id},
                        !.seen = IF partner = NULL THEN @
                                 ELSE [@ EXCEPT ![partner_id] = partner],
                        !.new_final_price[i] = formula_price_of(skus[i].base_price, partner)]
    /\ UNCHANGED <<db, now, writes, call, accounts, settlements, quote, deleting, inventory>>

(* after the loop: the assigned values go to the database *)
batch_commit ==
    /\ batch /= NULL
    /\ batch.todo = {}
    /\ batch' = NoBatch
    /\ assign_final_prices(batch.product_id, batch.new_final_price)
    /\ UNCHANGED <<accounts, settlements, quote, deleting, inventory>>

(* a partner edit that commits while the request is in flight *)
edit_during_batch(partner_id, profit_percentage, fixed_amount, price_ending_digit) ==
    /\ update_partner(partner_id, profit_percentage, fixed_amount, price_ending_digit)
    /\ batch' = IF batch = NULL THEN batch
                ELSE [batch EXCEPT !.versions[partner_id] = @ \cup {partners'[partner_id]}]
    /\ UNCHANGED <<accounts, settlements, quote, deleting, inventory>>

(* two SKUs of a product of partner p1, one of them with a base price      *)
(* whose formula result has a third decimal                                *)
EditInit ==
    /\ partners = InitPartners
    /\ products = InitProducts
    /\ skus = [i \in SkuIds |->
                  IF i = 1 THEN [product_id |-> Some("A"), base_price |-> Dec(100000),
                                 final_price |-> NULL]
                  ELSE IF i = 2 THEN [product_id |-> Some("A"), base_price |-> Cents(10001),
                                      final_price |-> NULL]
                  ELSE NULL]
    /\ rules = [i \in RuleIds |-> NULL]
    /\ now = 0
    /\ writes = 0
    /\ call = NoCall
    /\ accounts = NoAccounts
    /\ settlements = <<>>
    /\ quote = NoQuote
    /\ deleting = {}
    /\ stock = NoStock
    /\ inventory_updates = <<>>
    /\ orders = NoOrders
    /\ batch = NoBatch

BatchBegin == \E product_id \in {NULL, Some("A")} : batch_begin(product_id)

BatchSku == \E i \in SkuIds : batch_sku(i)

EditDuringBatch ==
    \E profit_percentage \in {Dec(20), Dec(50)}, fixed_amount \in {NULL, Dec(5000)},
       price_ending_digit \in {NULL, Some(1000)} :
        edit_during_batch("p1", profit_percentage, fixed_amount, price_ending_digit)

EditNext ==
    \/ BatchBegin
    \/ BatchSku
    \/ batch_commit
    \/ EditDuringBatch

EditSpec == EditInit /\ [][EditNext]_vars

-----------------------------------------------------------------------------
(* create_sku endpoint: the final price it works out by itself *)

(* round(f) of a float: the nearest integer, ties to even *)
RoundToInt(f) ==
    IF Exp(f) >= 0 THEN f
    ELSE DecOf(Sign(f), MagRoundPow10(Mag(f), 0 - Exp(f)), 0)

(* the float arithmetic of create_sku, carried out on the exact values:    *)
(* for base prices and partner fields of at most two decimals below 10^10  *)
(* the double that Python holds is within 10^-5 of the exact value, which  *)
(* is a multiple of 10^-4, so both are multiples of the ending digit       *)
(* together and round to the same integer unless the exact value lies      *)
(* half way between two integers with a profit percentage at work; the     *)
(* inputs of the model stay clear of that case                             *)
create_sku_final_price(base_price, partner) ==
    LET base == Float(base_price)
        profit_pct == Float(OrZero(partner.profit_percentage))
        fixed_amt == Float(OrZero(partner.fixed_amount))
        with_profit == DecAdd(DecMul(base, DecAdd(Dec(1), DecDivHundred(profit_pct))),
                              fixed_amt)
        ending == OrZeroInt(partner.price_ending_digit)
        remainder == IF ending > 0 THEN FloatMod(with_profit, ending) ELSE DecZero
        final_price == IF ending > 0 /\ remainder /= DecZero
                       THEN DecAdd(DecSub(with_profit, remainder), Dec(ending))
                       ELSE with_profit
    IN  RoundToInt(final_price)

(* SKUCreate: Field(None, gt=0) on base_price and final_price *)
SKUCreateValid(base_price, final_price) ==
    /\ base_price /= NULL => DecLt(DecZero, base_price)
    /\ final_price /= NULL => DecLt(DecZero, final_price)

(* "final_price if final_price else sku.final_price" *)
OrElse(x, y) == IF Truthy(x) THEN x ELSE y

(* the final price create_sku hands to the SKU: worked out only when the   *)
(* request carries none and the SKU has a base price, a product with a     *)
(* partner_id and that partner exists                                      *)
create_sku_price(product, base_price, final_price) ==
    IF ~Truthy(final_price) /\ Truthy(base_price) /\ product /= NULL
       /\ PartnerOf(product) /= NULL
    THEN OrElse(create_sku_final_price(base_price, PartnerOf(product)), final_price)
    ELSE final_price

(* validation, product lookup and the INSERT of the SKU with the final     *)
(* price as the DECIMAL(12, 2) column takes it                             *)
insert_sku(product_id, base_price, final_price, stored) ==
    /\ FreeSkuIds /= {}
    /\ LET id == CHOOSE i \in FreeSkuIds : \A j \in FreeSkuIds : i <= j
       IN  IF ~SKUCreateValid(base_price, final_price)
           THEN /\ call' = [op |-> "create_sku", status |-> 422]
                /\ UNCHANGED <<skus, stock>>
           ELSE IF Row(products, product_id) = NULL
           THEN /\ call' = [op |-> "create_sku", status |-> 404]
                /\ UNCHANGED <<skus, stock>>
           ELSE IF stored /= NULL /\ Numeric12Overflow(stored)
           THEN /\ call' = [op |-> "create_sku", status |-> 400]
                /\ UNCHANGED <<skus, stock>>
           ELSE /\ skus' = [skus EXCEPT ![id] =
                               [product_id |-> Some(product_id),
                                base_price |-> StoreNumeric2(base_price),
                                final_price |-> stored]]
                /\ stock' = [stock EXCEPT ![id] =
                                [quantity |-> Some(0), is_active |-> Some(TRUE)]]
                /\ call' = [op |-> "create_sku", status |-> 200, id |-> id,
                            final_price |-> final_price]
    /\ UNCHANGED <<partners, products, rules, now, writes, accounts, settlements, quote,
                   deleting, inventory_updates, orders, batch>>

(* create_sku with the price fields of the request body; quantity and      *)
(* inventory are left at their defaults                                    *)
create_sku(product_id, base_price, final_price) ==
    insert_sku(product_id, base_price, final_price,
               StoreNumeric2(create_sku_price(Row(products, product_id), base_price,
                                              final_price)))

CreateSku ==
    \E product_id \in ProductIds \cup {"Z"}, base_price \in {NULL, Dec(0)} \cup CostInputs,
       final_price \in {NULL, Dec(150000)} :
        create_sku(product_id, base_price, final_price)

UpdatePartnerBeforeCreate ==
    \E fixed_amount \in FixedInputs, price_ending_digit \in EndingInputs :
        update_partner("p1", Dec(20), fixed_amount, price_ending_digit)

CreateNext ==
    \/ UpdatePartnerBeforeCreate /\ UNCHANGED others
    \/ CreateSku
    \/ UpdateSkuFinalPrices /\ UNCHANGED others

CreateSpec == Init /\ [][CreateNext]_vars

-----------------------------------------------------------------------------
(* properties *)

(* C1: a second update_sku_final_prices directly after a first one, with   *)
(* the same scope and nothing written in between, returns 0 and leaves     *)
(* every SKU row as it was.                                                *)
C1_SecondRunUpdatesNothing ==
    (call.op = "update_sku_final_prices" /\ call.again)
        => (call.ret = 0 /\ call.rows_changed = {})

(* the least multiple of e that is not below p *)
IsLeastMultipleAtLeast(r, p, e) ==
    /\ Exp(r) >= 0
    /\ DecRem(r, e) = DecZero
    /\ DecLe(p, r)
    /\ DecLt(DecSub(r, p), Dec(e))

NullAsZero(x) == IF x = NULL THEN DecZero ELSE x

(* (100 * base + base * pct + 100 * fixed) / 100 *)
MarkedUp(base, pct, fixed) ==
    DecDivHundred(DecAdd(DecAdd(DecMul(Dec(100), base), DecMul(base, pct)),
                         DecMul(Dec(100), fixed)))

FormulaCallOnPartner ==
    /\ call.op = "calculate_final_price_with_formula"
    /\ Row(partners, call.partner_id) /= NULL

FormulaCallWithoutPartner ==
    /\ call.op = "calculate_final_price_with_formula"
    /\ Row(partners, call.partner_id) = NULL
    /\ call.base_price /= NULL

(* C8 as stated: with no partner row the formula path returns base_price   *)
(* unchanged whatever its sign.                                            *)
C8_MissingPartnerReturnsBase ==
    FormulaCallWithoutPartner => call.ret = call.base_price

(* C8: with no partner row the formula path returns base_price unchanged   *)
(* when base_price is positive or zero, and zero when it is negative.      *)
C8_MissingPartnerClamped ==
    FormulaCallWithoutPartner =>
        /\ DecLe(DecZero, call.base_price) => call.ret = call.base_price
        /\ DecLt(call.base_price, DecZero) => call.ret = DecZero

C8_Witness ==
    /\ FormulaCallWithoutPartner
    /\ call.base_price = Cents(10001)
    /\ call.ret = Cents(10001)

(* the rule evaluator, stated without the division by 100 *)
EvaluatesTo(ret, current_price, rule) ==
    IF rule.rule_type = "percentage"
    THEN DecMul(Dec(100), ret) = DecMul(current_price, DecAdd(Dec(100), rule.rule_value))
    ELSE IF rule.rule_type = "fixed_amount"
    THEN DecSub(ret, current_price) = rule.rule_value
    ELSE ret = current_price

(* the fold written from the last rule inwards:                            *)
(* apply(... apply(apply(cost, r1), r2) ..., rn)                           *)
RECURSIVE FoldLeft(_, _, _)
FoldLeft(cost_price, rows, quantity) ==
    IF rows = <<>> THEN cost_price
    ELSE apply_pricing_rule(FoldLeft(cost_price, SubSeq(rows, 1, Len(rows) - 1), quantity),
                            rows[Len(rows)], quantity)

PriorityDescending(rows) ==
    \A i, j \in DOMAIN rows : i < j => Val(rows[i].priority) >= Val(rows[j].priority)

IsRule(r, rule_type, rule_value, priority) ==
    r.rule_type = rule_type /\ r.rule_value = rule_value /\ r.priority = Some(priority)

RuleCallResolved == call.op = "calculate_price" /\ call.resolved

(* C2: calculate_price returns the left fold of the rule evaluator over    *)
(* the fetched rules, which come in descending priority; each rule works   *)
(* on the previous rule's output (percentage 10 at priority 10, then       *)
(* fixed 2000 at priority 5, turn 100000 into 112000; with the priorities  *)
(* swapped the result is 112200).                                          *)
C2_LeftFoldInPriorityOrder ==
    RuleCallResolved =>
        LET rows == RuleRows(call.pricing_rules)
        IN  /\ PriorityDescending(rows)
            /\ call.ret = FoldLeft(call.cost_price, rows, call.quantity)
            /\ (/\ call.cost_price = Dec(100000) /\ Len(rows) = 2
                /\ IsRule(rows[1], "percentage", Dec(10), 10)
                /\ IsRule(rows[2], "fixed_amount", Dec(2000), 5)) => call.ret = Dec(112000)
            /\ (/\ call.cost_price = Dec(100000) /\ Len(rows) = 2
                /\ IsRule(rows[1], "fixed_amount", Dec(2000), 10)
                /\ IsRule(rows[2], "percentage", Dec(10), 5)) => call.ret = Dec(112200)

C2_Witness ==
    /\ RuleCallResolved
    /\ call.cost_price = Dec(100000)
    /\ Len(call.pricing_rules) = 2
    /\ IsRule(rules[call.pricing_rules[1]], "fixed_amount", Dec(2000), 10)
    /\ IsRule(rules[call.pricing_rules[2]], "percentage", Dec(10), 5)
    /\ call.ret = Dec(112200)

(* the applicability predicate of the data model, two-valued *)
Applicable(r, partner_id, category, quantity, t) ==
    /\ r.partner_id = Some(partner_id)
    /\ r.is_active = Some(TRUE)
    /\ r.valid_from /= NULL /\ Val(r.valid_from) <= t
    /\ r.valid_until = NULL \/ Val(r.valid_until) >= t
    /\ r.min_quantity /= NULL /\ Val(r.min_quantity) <= quantity
    /\ r.max_quantity = NULL \/ Val(r.max_quantity) >= quantity
    /\ r.category_filter = NULL \/ r.category_filter = category

(* C3: the rule query returns each rule of the partner that is active,     *)
(* inside its validity window and quantity range (bounds inclusive) and    *)
(* matches the category, once, and returns no other rule.                  *)
C3_ExactlyTheApplicableRules ==
    call.op = "_get_applicable_pricing_rules" =>
        /\ {call.ret[i] : i \in DOMAIN call.ret} =
               {i \in RuleIds : rules[i] /= NULL
                    /\ Applicable(rules[i], call.partner_id, call.category,
                                  call.quantity, now)}
        /\ \A i, j \in DOMAIN call.ret : i /= j => call.ret[i] /= call.ret[j]

C3_Witness ==
    /\ call.op = "_get_applicable_pricing_rules"
    /\ call.partner_id = "p1"
    /\ call.quantity = 5
    /\ call.ret = <<1>>
    /\ rules[1].min_quantity = Some(5)
    /\ rules[2] /= NULL
    /\ rules[2].partner_id = Some("p2")

(* C4: a calculate_price call repeated with the same arguments on the same *)
(* rules at the same time returns the same price.                          *)
C4_RepeatedCallSamePrice ==
    (call.op = "calculate_price" /\ call.again) => call.ret = call.prev_ret

(* C5: the rule evaluator returns current_price * (1 + rule_value / 100)   *)
(* for a percentage rule, current_price + rule_value for a fixed_amount    *)
(* rule and current_price for a custom rule, and writes nothing: the rule  *)
(* row and every table stay as they were.                                  *)
C5_EvaluatorValueAndFrame ==
    [][call'.op = "_apply_pricing_rule" =>
          /\ EvaluatesTo(call'.ret, call'.current_price, call'.rule)
          /\ \E id \in RuleIds : rules[id] = call'.rule /\ rules'[id] = call'.rule
          /\ UNCHANGED <<partners, products, skus, rules>>]_vars

C5_Witness ==
    /\ call.op = "_apply_pricing_rule"
    /\ call.rule.rule_type = "percentage"
    /\ call.rule.rule_value = Dec(-50)
    /\ call.current_price = Dec(100000)
    /\ call.ret = Dec(50000)

(* the chain SKU -> product -> partner is broken *)
NoPartnerForCall ==
    IF call.op = "calculate_price"
    THEN \/ Row(skus, call.sku_id) = NULL
         \/ Row(products, Val(skus[call.sku_id].product_id)) = NULL
         \/ products[Val(skus[call.sku_id].product_id)].partner_id = NULL
         \/ Row(partners, Val(products[Val(skus[call.sku_id].product_id)].partner_id)) = NULL
    ELSE \/ Row(products, call.product_id) = NULL
         \/ products[call.product_id].partner_id = NULL
         \/ Row(partners, Val(products[call.product_id].partner_id)) = NULL

CategoryForCall ==
    IF call.op = "calculate_price"
    THEN products[Val(skus[call.sku_id].product_id)].category
    ELSE products[call.product_id].category

PartnerForCall ==
    IF call.op = "calculate_price"
    THEN Val(products[Val(skus[call.sku_id].product_id)].partner_id)
    ELSE Val(products[call.product_id].partner_id)

(* C6: calculate_price and calculate_price_for_product return cost_price   *)
(* itself when the SKU, its product or the product's partner is missing,   *)
(* and when the partner has no applicable rule.                            *)
C6_FallbackReturnsCost ==
    call.op \in {"calculate_price", "calculate_price_for_product"} =>
        IF NoPartnerForCall THEN call.ret = call.cost_price
        ELSE (\A i \in RuleIds : rules[i] /= NULL =>
                  ~Applicable(rules[i], PartnerForCall, CategoryForCall, call.quantity, now))
                 => call.ret = call.cost_price

C6_Witness ==
    /\ call.op = "calculate_price"
    /\ call.sku_id = 2
    /\ products["B"].partner_id = NULL
    /\ \E i \in RuleIds : rules[i] /= NULL /\ rules[i].rule_type = "percentage"
                          /\ rules[i].is_active = Some(TRUE)
    /\ call.ret = call.cost_price

NormalizerCall == call.op = "_apply_price_ending"

C10_LeastMultipleAtLeast ==
    NormalizerCall =>
        /\ call.ending_digit <= 0 => call.ret = call.price
        /\ call.ending_digit > 0 =>
               IsLeastMultipleAtLeast(call.ret, call.price, call.ending_digit)
        /\ (call.price = Dec(125000) /\ call.ending_digit = 1000) => call.ret = Dec(125000)
        /\ (call.price = Dec(125137) /\ call.ending_digit = 1000) => call.ret = Dec(126000)

-----------------------------------------------------------------------------
(* bulk recompute *)

RecomputeCall == call.op = "update_sku_final_prices"

(* the SKU has a base price and its product has a partner *)
HasBasePriceAndPartner(sku) ==
    /\ sku.base_price /= NULL
    /\ ProductOf(sku) /= NULL
    /\ PartnerOf(ProductOf(sku)) /= NULL

(* C11: right after update_sku_final_prices every SKU in scope that has a  *)
(* base price and a partner stores the formula path's result for its       *)
(* current base price and its partner's current formula fields.            *)
C11_StoredFinalPriceIsFormulaResult ==
    RecomputeCall =>
        \A i \in SelectedSkus(call.product_id) :
            HasBasePriceAndPartner(skus[i]) =>
                skus[i].final_price =
                    calculate_final_price_with_formula(
                        skus[i].base_price, Val(ProductOf(skus[i]).partner_id), 1)

(* C12: update_sku_final_prices returns the number of SKUs whose stored    *)
(* final_price differs after the call from what it was before the call.    *)
C12_ReturnsNumberOfChangedRows ==
    RecomputeCall => call.ret = Cardinality(call.rows_changed)

(* recomputing the SKU raises in the formula path, or its new final price *)
(* does not fit the column                                                 *)
FailsToRecompute(sku) ==
    /\ Recomputable(sku)
    /\ \/ sku.base_price = DecNaN
       \/ Numeric12Overflow(NewFinalPrice(sku))

(* C13: when recomputing one SKU fails, update_sku_final_prices leaves     *)
(* that SKU as it was, and every other SKU in scope that has a base price  *)
(* and a partner still gets its recomputed final price stored.             *)
C13_FailureDoesNotAbortBatch ==
    [][call'.op = "update_sku_final_prices" =>
          \A i \in SelectedSkus(call'.product_id) :
              IF FailsToRecompute(skus[i]) THEN skus'[i] = skus[i]
              ELSE Recomputable(skus[i]) =>
                       skus'[i].final_price = Numeric2(NewFinalPrice(skus[i]))]_vars

-----------------------------------------------------------------------------
(* the two pricing paths *)

(* the call and the kept call are calls of the same operation *)
BothCalls(op) == call.op = op /\ quote.call.op = op

RangeOf(seq) == {seq[k] : k \in 1..Len(seq)}

(* C14: two calls of calculate_final_price_with_formula with the same      *)
(* base_price, over the same formula fields of the partner, return the     *)
(* same price whatever the quantities and the pricing rules of the two     *)
(* calls are; two calls of calculate_price with the same arguments, over   *)
(* the same pricing rules, apply the same rules and, when they apply them  *)
(* in the same order, return the same price, whatever the partner's        *)
(* formula fields are.                                                     *)
C14_PathsDoNotInteract ==
    /\ (/\ BothCalls("calculate_final_price_with_formula")
        /\ call.base_price = quote.call.base_price
        /\ call.partner_id = quote.call.partner_id
        /\ partners[call.partner_id] = quote.partners[call.partner_id])
           => call.ret = quote.call.ret
    /\ (/\ BothCalls("calculate_price")
        /\ call.sku_id = quote.call.sku_id
        /\ call.cost_price = quote.call.cost_price
        /\ call.quantity = quote.call.quantity
        /\ rules = quote.rules)
           => /\ RangeOf(call.pricing_rules) = RangeOf(quote.call.pricing_rules)
              /\ call.pricing_rules = quote.call.pricing_rules
                     => call.ret = quote.call.ret

(* a formula call for five units over a partner with pricing rules, kept   *)
(* call for one unit before the rules existed; and a rule call over        *)
(* changed formula fields                                                  *)
C14_Witness ==
    \/ /\ BothCalls("calculate_final_price_with_formula")
       /\ call.quantity = 5 /\ quote.call.quantity = 1
       /\ call.base_price = Dec(100000) /\ quote.call.base_price = Dec(100000)
       /\ partners["p1"] = quote.partners["p1"]
       /\ partners["p1"].profit_percentage = Dec(20)
       /\ partners["p1"].fixed_amount = Dec(5000)
       /\ quote.rules = [i \in RuleIds |-> NULL]
       /\ \E i \in RuleIds : /\ rules[i] /= NULL
                             /\ rules[i].partner_id = Some("p1")
                             /\ rules[i].rule_type = "percentage"
       /\ call.ret = Dec(125000)

-----------------------------------------------------------------------------
(* the two entry points of the rule path *)

(* C15: calculate_price_for_product called for the product of a SKU,       *)
(* directly after calculate_price for that SKU with the same cost_price    *)
(* and quantity, returns what calculate_price returned.                    *)
C15_SameResultForProduct ==
    [][(/\ call.op = "calculate_price"
        /\ call'.op = "calculate_price_for_product"
        /\ Row(skus, call.sku_id) /= NULL
        /\ Row(skus, call.sku_id).product_id = Some(call'.product_id)
        /\ call'.cost_price = call.cost_price
        /\ call'.quantity = call.quantity)
           => call'.ret = call.ret]_vars

-----------------------------------------------------------------------------
(* partner updates, formula calls and the stored final_price *)

(* the formula's price of base_price under the fields of a partner row *)
PriceUnder(partner, base_price) ==
    apply_price_ending(
        calculate_price_with_profit(base_price, OrZero(partner.profit_percentage),
                                    OrZero(partner.fixed_amount)),
        OrZeroInt(partner.price_ending_digit))

-----------------------------------------------------------------------------
(* credit limit and debt *)

(* C17: every stored partner has current_debt >= 0 and, when its           *)
(* credit_limit is above zero, current_debt <= credit_limit.               *)
C17_DebtWithinLimit ==
    \A p \in PartnerIds :
        partners[p] /= NULL =>
            /\ DecLe(DecZero, OrZero(accounts[p].current_debt))
            /\ DecLt(DecZero, OrZero(accounts[p].credit_limit))
                   => DecLe(OrZero(accounts[p].current_debt), accounts[p].credit_limit)

(* C18: an update_partner_debt request with a valid operation whose        *)
(* resulting debt is above a credit_limit that is above zero is answered   *)
(* with status 400, and leaves the partner's row and the settlement        *)
(* records as they are.                                                    *)
C18_OverLimitIsRejected ==
    [][(/\ call'.op = "update_partner_debt"
        /\ Row(partners, call'.partner_id) /= NULL
        /\ call'.operation \in {"add", "subtract", "set"}
        /\ ExceedsCreditLimit(accounts[call'.partner_id],
                              new_debt(accounts[call'.partner_id], call'.amount,
                                       call'.operation)))
           => /\ call'.status = 400
              /\ accounts' = accounts
              /\ settlements' = settlements]_vars

(* a debt of 3000 under a limit of 5000, and a rejected request to add     *)
(* another 3000                                                            *)
C18_Witness ==
    /\ call.op = "update_partner_debt"
    /\ call.operation = "add"
    /\ call.amount = Dec(3000)
    /\ call.partner_id = "p1"
    /\ call.status = 400
    /\ accounts["p1"] = [credit_limit |-> Dec(5000), current_debt |-> Dec(3000)]

-----------------------------------------------------------------------------
(* partners and their products *)

(* C19: no step removes a partner that owns a product or changes a product *)
(* of such a partner, and after every step each product that names a       *)
(* partner names a stored one.                                             *)
C19_OwnerIsNeverRemoved ==
    [][/\ \A p \in PartnerIds :
              (partners[p] /= NULL /\ ProductsOf(p) /= {})
                  => /\ partners'[p] /= NULL
                     /\ \A q \in ProductsOf(p) : products'[q] = products[q]
       /\ \A q \in ProductIds :
              (products'[q] /= NULL /\ products'[q].partner_id /= NULL)
                  => partners'[Val(products'[q].partner_id)] /= NULL]_vars

-----------------------------------------------------------------------------
(* quantity bounds of stored rules *)

(* C20: every stored pricing rule has min_quantity >= 1 and, when it has a *)
(* max_quantity, max_quantity >= min_quantity.                             *)
C20_QuantityBoundsKept ==
    \A i \in RuleIds :
        rules[i] /= NULL =>
            /\ rules[i].min_quantity /= NULL
            /\ Val(rules[i].min_quantity) >= 1
            /\ rules[i].max_quantity /= NULL
                   => Val(rules[i].max_quantity) >= Val(rules[i].min_quantity)

-----------------------------------------------------------------------------
(* rule values *)

(* C21: every stored rule of type percentage or fixed_amount has a         *)
(* rule_value, and _apply_pricing_rule on a stored rule returns a price.   *)
C21_StoredRulesHaveValue ==
    /\ \A i \in RuleIds :
           (rules[i] /= NULL /\ rules[i].rule_type \in {"percentage", "fixed_amount"})
               => rules[i].rule_value /= NULL
    /\ call.op = "_apply_pricing_rule" => ~Raised(call.ret)

-----------------------------------------------------------------------------
(* rule deletion *)

(* C22: no step removes a stored rule; a delete_pricing_rule step on a     *)
(* stored rule changes nothing but the is_active field of that rule, which *)
(* it sets to false, and on an unknown id it changes no rule.              *)
C22_DeleteIsSoft ==
    [][/\ \A i \in RuleIds : rules[i] /= NULL => rules'[i] /= NULL
       /\ call'.op = "delete_pricing_rule" =>
              IF Row(rules, call'.rule_id) = NULL
              THEN call'.status = 404 /\ rules' = rules
              ELSE /\ rules'[call'.rule_id].is_active = Some(FALSE)
                   /\ \A f \in DOMAIN rules[call'.rule_id] \ {"is_active"} :
                          rules'[call'.rule_id][f] = rules[call'.rule_id][f]
                   /\ \A i \in RuleIds \ {call'.rule_id} : rules'[i] = rules[i]]_vars

(* a deleted rule, still stored with its value *)
C22_Witness ==
    /\ call.op = "delete_pricing_rule"
    /\ call.status = 200
    /\ rules[call.rule_id] /= NULL
    /\ rules[call.rule_id].is_active = Some(FALSE)
    /\ rules[call.rule_id].rule_value = Dec(10)
    /\ rules[call.rule_id].partner_id = Some("p1")

-----------------------------------------------------------------------------
(* the quantity of SKU sku_id when item k of an order is reached: each     *)
(* earlier item of the same SKU that the quantity covered has been taken   *)
(* off it                                                                  *)
RECURSIVE QuantityBefore(_, _, _, _)
QuantityBefore(stored, order_items, k, sku_id) ==
    IF k = 1
    THEN Val(stored[sku_id].quantity)
    ELSE LET before == QuantityBefore(stored, order_items, k - 1, sku_id)
             item == order_items[k - 1]
         IN  IF item.sku_id = sku_id /\ before >= item.quantity_ordered
             THEN before - item.quantity_ordered
             ELSE before

(* C23: a call of process_order_inventory_update that returns has handled  *)
(* every item of a stored SKU by its quantity at that point: a quantity    *)
(* that covers the order is reduced by exactly the ordered quantity and    *)
(* counted in 'updated'; any other is left as it is, not counted, and      *)
(* reported in 'insufficient_stock' with the available and the requested   *)
(* quantity; the items after an insufficient one are handled all the same  *)
C23_EveryItemHandled ==
    [][(call'.op = "process_order_inventory_update" /\ ~call'.raised) =>
          LET order_items == call'.order_items
              known == {k \in 1 .. Len(order_items) :
                           Row(stock, order_items[k].sku_id) /= NULL}
              Covered(k) == QuantityBefore(stock, order_items, k, order_items[k].sku_id)
                               >= order_items[k].quantity_ordered
              short == SelectSeq([k \in 1 .. Len(order_items) |-> k],
                                 LAMBDA k : k \in known /\ ~Covered(k))
              reported == call'.ret.insufficient_stock
          IN  /\ call'.ret.updated = Cardinality({k \in known : Covered(k)})
              /\ Len(reported) = Len(short)
              /\ \A n \in 1 .. Len(short) :
                    reported[n] =
                        [sku_id |-> order_items[short[n]].sku_id,
                         available |-> QuantityBefore(stock, order_items, short[n],
                                                      order_items[short[n]].sku_id),
                         requested |-> order_items[short[n]].quantity_ordered]
              /\ \A i \in SkuIds :
                    stock[i] /= NULL =>
                        /\ stock'[i].is_active = stock[i].is_active
                        /\ stock'[i].quantity =
                               IF stock[i].quantity = NULL
                               THEN NULL
                               ELSE Some(QuantityBefore(stock, order_items,
                                                        Len(order_items) + 1, i))
      ]_vars

(* the first item was short of stock and the second was applied *)
C23_Witness ==
    /\ call.op = "process_order_inventory_update"
    /\ call.order_items = <<OrderItem(1, 6), OrderItem(2, 3)>>
    /\ ~call.raised
    /\ call.ret.updated = 1
    /\ call.ret.insufficient_stock = <<[sku_id |-> 1, available |-> 5, requested |-> 6]>>
    /\ stock[1].quantity = Some(5)
    /\ stock[2].quantity = Some(7)

-----------------------------------------------------------------------------
(* C24: manual_inventory_update of a stored SKU sets its quantity to       *)
(* new_quantity, returns the quantity held before as old_quantity together *)
(* with new_quantity, and adds exactly one log row of type 'manual' with   *)
(* those two quantities; for an unknown sku_id it raises, no SKU changes   *)
(* and no log row is written                                               *)
C24_ManualUpdateIsRecorded ==
    [][call'.op = "manual_inventory_update" =>
          LET sku_id == call'.sku_id
              new_quantity == call'.new_quantity
          IN  IF Row(stock, sku_id) = NULL
              THEN /\ call'.raised
                   /\ stock' = stock
                   /\ inventory_updates' = inventory_updates
              ELSE /\ ~call'.raised
                   /\ stock' = [stock EXCEPT ![sku_id].quantity = Some(new_quantity)]
                   /\ call'.ret.old_quantity = stock[sku_id].quantity
                   /\ call'.ret.new_quantity = new_quantity
                   /\ inventory_updates' =
                          Append(inventory_updates,
                                 [sku_id |-> sku_id, old_quantity |-> stock[sku_id].quantity,
                                  new_quantity |-> Some(new_quantity),
                                  update_type |-> "manual"])
      ]_vars

(* a quantity of 3 left by an order was set to 10 by hand *)
C24_Witness ==
    /\ call.op = "manual_inventory_update"
    /\ ~call.raised
    /\ call.sku_id = 1
    /\ call.ret.old_quantity = Some(3)
    /\ call.ret.new_quantity = 10
    /\ stock[1].quantity = Some(10)
    /\ Len(inventory_updates) = 2
    /\ inventory_updates[2] = [sku_id |-> 1, old_quantity |-> Some(3),
                               new_quantity |-> Some(10), update_type |-> "manual"]

-----------------------------------------------------------------------------
(* C25: get_low_stock_items(threshold) returns exactly the SKUs that are   *)
(* active and whose quantity is at most the threshold, the threshold       *)
(* itself included, each with its current quantity, and it changes no      *)
(* stored row                                                              *)
C25_LowStockIsExact ==
    [][call'.op = "get_low_stock_items" =>
          /\ LET low == {i \in SkuIds : /\ stock[i] /= NULL
                                        /\ stock[i].is_active = Some(TRUE)
                                        /\ stock[i].quantity /= NULL
                                        /\ Val(stock[i].quantity) <= call'.threshold}
             IN  /\ {item.sku_id : item \in call'.ret} = low
                 /\ Cardinality(call'.ret) = Cardinality(low)
                 /\ \A item \in call'.ret :
                       Some(item.current_quantity) = stock[item.sku_id].quantity
          /\ UNCHANGED <<db, stock, inventory_updates, accounts, settlements>>
      ]_vars

(* a SKU whose quantity equals the threshold is listed, next to one below  *)
(* the threshold                                                           *)
C25_Witness ==
    /\ call.op = "get_low_stock_items"
    /\ call.threshold = 10
    /\ stock[2] /= NULL
    /\ stock[2].quantity = Some(10)
    /\ call.ret = {[sku_id |-> 1, current_quantity |-> 5],
                   [sku_id |-> 2, current_quantity |-> 10]}

-----------------------------------------------------------------------------
(* the quantity taken off SKU sku_id by the items counted as 'updated':    *)
(* each of them wrote one log row of type 'order_placed' whose quantities  *)
(* differ by the ordered quantity                                          *)
RECURSIVE OrderedAndUpdated(_, _)
OrderedAndUpdated(log, sku_id) ==
    IF log = <<>>
    THEN 0
    ELSE LET row == Head(log)
         IN  (IF row.sku_id = sku_id /\ row.update_type = "order_placed"
              THEN Val(row.old_quantity) - Val(row.new_quantity)
              ELSE 0)
             + OrderedAndUpdated(Tail(log), sku_id)

(* C29: under any interleaving of order requests the quantity of every SKU *)
(* stays non-negative and the initial quantity less the stored quantity    *)
(* equals the sum of the ordered quantities of the items counted as        *)
(* 'updated'                                                               *)
C29_StockIsConserved ==
    \A i \in SkuIds :
        /\ Val(stock[i].quantity) >= 0
        /\ InitialQuantity - Val(stock[i].quantity) =
               OrderedAndUpdated(inventory_updates, i)

-----------------------------------------------------------------------------
(* C26: when update_sku_final_prices commits, every final_price it has     *)
(* changed, and the final_price of every SKU it recomputed, equals the     *)
(* formula price of the SKU's base_price under one row the partner held    *)
(* while the request ran: the fields before an edit or the fields after    *)
(* it, never some of each                                                  *)
C26_OldOrNewNeverAMix ==
    [][(batch /= NULL /\ batch' = NULL /\ call'.op = "update_sku_final_prices") =>
          \A i \in SkuIds :
              (skus[i] /= NULL /\ batch.partner_of[i] /= "none"
                  /\ (batch.product_id = NULL \/ skus[i].product_id = batch.product_id)) =>
                  \E partner \in batch.versions[batch.partner_of[i]] :
                      skus'[i].final_price = PriceUnder(partner, skus[i].base_price)
      ]_vars

-----------------------------------------------------------------------------
(* C27: update_sku_final_prices(product_id) changes nothing but the        *)
(* final_price of SKUs it selects: a SKU of another product, a SKU without *)
(* base_price and a SKU whose product has no partner keep their            *)
(* final_price; every SKU keeps its other fields and its quantity; no SKU  *)
(* is added or removed; partners, products and pricing rules stay as they  *)
(* are                                                                     *)
C27_OnlySelectedFinalPrices ==
    [][call'.op = "update_sku_final_prices" =>
          /\ UNCHANGED <<partners, products, rules, stock, inventory_updates,
                         accounts, settlements>>
          /\ \A i \in SkuIds :
                IF skus[i] = NULL
                THEN skus'[i] = NULL
                ELSE /\ skus'[i] /= NULL
                     /\ skus'[i].product_id = skus[i].product_id
                     /\ skus'[i].base_price = skus[i].base_price
                     /\ skus'[i].final_price /= skus[i].final_price =>
                            /\ call'.product_id = NULL
                                   \/ skus[i].product_id = call'.product_id
                            /\ skus[i].base_price /= NULL
                            /\ skus[i].product_id /= NULL
                            /\ products[Val(skus[i].product_id)].partner_id /= NULL
      ]_vars

(* the SKU of product A was repriced while a SKU of product B, which has   *)
(* no partner, kept its empty final_price                                  *)
C27_Witness ==
    /\ call.op = "update_sku_final_prices"
    /\ call.product_id = Some("A")
    /\ call.ret = 1
    /\ \E i, j \in SkuIds :
          /\ skus[i] /= NULL /\ skus[j] /= NULL
          /\ skus[i].product_id = Some("A")
          /\ skus[i].final_price /= NULL
          /\ skus[j].product_id = Some("B")
          /\ skus[j].base_price /= NULL
          /\ skus[j].final_price = NULL

-----------------------------------------------------------------------------
(* C28: the final_price create_sku stores for a SKU with a base_price and  *)
(* a partner equals the value calculate_final_price_with_formula returns   *)
(* for that base_price and partner, whatever the partner's fields and      *)
(* whether or not the client sent a final_price; and a call of             *)
(* update_sku_final_prices right after the creation leaves the new row as  *)
(* it is                                                                   *)
C28_CreatedPriceIsFormulaPrice ==
    [][/\ (call'.op = "create_sku" /\ call'.status = 200
            /\ Recomputable(skus'[call'.id]))
          => skus'[call'.id].final_price =
                 PriceUnder(partners[Val(products[Val(skus'[call'.id].product_id)].partner_id)],
                            skus'[call'.id].base_price)
       /\ (call.op = "create_sku" /\ call.status = 200
            /\ call'.op = "update_sku_final_prices")
          => skus'[call.id] = skus[call.id]
      ]_vars

-----------------------------------------------------------------------------
(* C30: update_partner_debt adds a settlement record exactly when the      *)
(* operation is 'subtract', the amount is above zero and the update is     *)
(* accepted; the record it adds satisfies previous_debt - amount =         *)
(* remaining_debt, and its remaining_debt is the partner's current_debt    *)
(* after the update                                                        *)
C30_SettlementMatchesDebt ==
    [][call'.op = "update_partner_debt" =>
          LET recorded == call'.operation = "subtract" /\ DecLt(DecZero, call'.amount)
                             /\ call'.status = 200
          IN  IF recorded
              THEN /\ Len(settlements') = Len(settlements) + 1
                   /\ SubSeq(settlements', 1, Len(settlements)) = settlements
                   /\ LET record == settlements'[Len(settlements')]
                      IN  /\ record.partner_id = call'.partner_id
                          /\ record.amount = call'.amount
                          /\ DecSub(record.previous_debt, record.amount)
                                 = record.remaining_debt
                          /\ Some(record.remaining_debt) =
                                 Some(accounts'[call'.partner_id].current_debt)
              ELSE settlements' = settlements
      ]_vars

=============================================================================
